---- MODULE Spec2Model ----
(***************************************************************************)
(* Model of the blackbird SFU session registry: the two implementations    *)
(* of the SessionHandler interface (WebRtcSessionHandler and               *)
(* MockSessionHandler), their parameter validation, identifier generation  *)
(* and locking.                                                            *)
(*                                                                         *)
(* Conventions.  A Go string is a tuple of one-character strings.  A Go    *)
(* pointer, map or slice that may be nil is a tuple of length at most 1:   *)
(* <<>> is nil and <<x>> points to x.  An errors slice is a tuple of       *)
(* messages, <<>> being the nil slice.  Objects allocated on the heap      *)
(* carry a field ref, the serial number of the operation that allocated    *)
(* them, which stands for the object's address.                            *)
(***************************************************************************)
EXTENDS Integers, Sequences, FiniteSets, TLC

VARIABLES
    kind,        \* which implementation of SessionHandler the server was given
    sessions,    \* h.sessions
    locker,      \* h.locker / h.mutex: 0 when free, else the thread holding it
    pc,          \* where each thread is in the operation it runs
    call,        \* the parameters of the operation each thread runs
    ret,         \* the operation that returned in the last step, and its result
    opsStarted,  \* how many operations were called so far
    created,     \* history: the sessions CreateSession returned, until a DeleteSession of their id
    deleted,     \* history: the sessions DeleteSession removed, as they were then
    opsLimit,    \* how many operations the callers call in all
    held,        \* what the request handler of each thread holds of the result it got
    response,    \* the response a request handler wrote in the last step
    twin,        \* the other implementation of SessionHandler, given the same calls
    request      \* the HTTP request the server received last

vars == <<kind, sessions, locker, pc, call, ret, opsStarted, created, deleted, opsLimit,
          held, response, twin, request>>

\* ------------------------------------------------------------------ bounds

NumThreads == 2
MaxOps == 4

Threads == 1..NumThreads

\* --------------------------------------------------------------- constants

IdLen == 10

Nil == <<>>

Ptr(x) == <<x>>

Deref(p) == p[1]

\* ----------------------------------------------------------------- strings

Rep(c, n) == [i \in 1..n |-> c]

Digits == {"0", "1", "2", "3", "4", "5", "6", "7", "8", "9"}

LowerHex == {"a", "b", "c", "d", "e", "f"}

UpperHex == {"A", "B", "C", "D", "E", "F"}

Lower == LowerHex \cup {"g", "h", "i", "j", "k", "l", "m", "n", "o", "p", "q",
                        "r", "s", "t", "u", "v", "w", "x", "y", "z"}

Upper == UpperHex \cup {"G", "H", "I", "J", "K", "L", "M", "N", "O", "P", "Q",
                        "R", "S", "T", "U", "V", "W", "X", "Y", "Z"}

\* the character class [A-Za-z0-9=+\-] of isId
IdChars == Upper \cup Lower \cup Digits \cup {"=", "+", "-"}

HexChars == Digits \cup LowerHex \cup UpperHex

\* the white space strings.TrimSpace removes (those a TLA+ string can hold)
WhiteSpace == {" ", "\t", "\n", "\r", "\f"}

RECURSIVE TrimLeft(_)
TrimLeft(v) ==
    IF Len(v) = 0 THEN v
    ELSE IF Head(v) \in WhiteSpace THEN TrimLeft(Tail(v)) ELSE v

RECURSIVE TrimRight(_)
TrimRight(v) ==
    IF Len(v) = 0 THEN v
    ELSE IF v[Len(v)] \in WhiteSpace THEN TrimRight(SubSeq(v, 1, Len(v) - 1)) ELSE v

TrimSpace(v) == TrimRight(TrimLeft(v))

\* regexp.MatchString with an unanchored one-character class: some character
\* of v is in the class
MatchString(class, v) == \E i \in 1..Len(v) : v[i] \in class

\* an expected-failure message: a format text and its %s argument
Msg(arg, text) == [arg |-> arg, text |-> text]

NameField == <<"n", "a", "m", "e">>

\* ------------------------------------------------------------ validation

\* isNotBlank without strings.TrimSpace
isNotBlankUntrimmed(n, v) ==
    IF Len(v) = 0 THEN Ptr(Msg(n, "%s must not be blank")) ELSE Nil

\* preconditions.go: nil (<<>>) or the error
isNotBlank(n, v) ==
    IF Len(TrimSpace(v)) = 0 THEN Ptr(Msg(n, "%s must not be blank")) ELSE Nil

isId(n, v) ==
    LET valid == Len(v) = IdLen /\ MatchString(IdChars, v)
    IN  IF ~valid THEN Ptr(Msg(v, "%s must be a valid id")) ELSE Nil

\* uuid.Parse of github.com/google/uuid as checkSessionId uses it: the
\* canonical 36-character form, the urn:uuid: and {braced} forms around it and
\* the 32 hex digits form
IsCanonicalUuid(v) ==
    /\ Len(v) = 36
    /\ \A i \in 1..36 :
          IF i \in {9, 14, 19, 24} THEN v[i] = "-" ELSE v[i] \in HexChars

uuidParse(v) ==
    CASE Len(v) = 36 -> IsCanonicalUuid(v)
      [] Len(v) = 45 -> /\ SubSeq(v, 1, 9) = <<"u", "r", "n", ":", "u", "u", "i", "d", ":">>
                        /\ IsCanonicalUuid(SubSeq(v, 10, 45))
      [] Len(v) = 38 -> IsCanonicalUuid(SubSeq(v, 2, 37))
      [] Len(v) = 32 -> \A i \in 1..32 : v[i] \in HexChars
      [] OTHER -> FALSE

\* sessionutils.go
checkSessionId(id) ==
    IF ~uuidParse(id) THEN Ptr(Msg(id, "invalid UUID %s")) ELSE Nil

\* checkNotBlank without strings.TrimSpace
checkNotBlankUntrimmed(name) ==
    IF Len(name) = 0 THEN Ptr(Msg(NameField, "%s must not be blank")) ELSE Nil

checkNotBlank(name) ==
    IF Len(TrimSpace(name)) = 0 THEN Ptr(Msg(NameField, "%s must not be blank")) ELSE Nil

\* append(errors, err.Error()) when err != nil
AppendErr(errors, err) == IF err /= Nil THEN Append(errors, Deref(err)) ELSE errors

SessionIdField == <<"s", "e", "s", "s", "i", "o", "n", "I", "d">>

ParticipantIdField == <<"p", "a", "r", "t", "i", "c", "i", "p", "a", "n", "t", "I", "d">>

IdField == <<"i", "d">>

\* the check methods of the parameter records (nil, <<>>, when all is valid)
CreateSessionParamsCheck(p) == AppendErr(<<>>, isNotBlank(NameField, p.Name))

GetSessionParamsCheck(p) == AppendErr(<<>>, isId(IdField, p.SessionId))

DeleteSessionParamsCheck(p) == AppendErr(<<>>, isId(IdField, p.SessionId))

AddParticipantParamsCheck(p) ==
    AppendErr(AppendErr(<<>>, isId(SessionIdField, p.SessionId)),
              isNotBlank(NameField, p.Name))

GetParticipantParamsCheck(p) ==
    AppendErr(AppendErr(<<>>, isId(SessionIdField, p.SessionId)),
              isId(ParticipantIdField, p.ParticipantId))

UpdateParticipantParamsCheck(p) ==
    AppendErr(AppendErr(AppendErr(<<>>, isId(SessionIdField, p.SessionId)),
                        isId(ParticipantIdField, p.ParticipantId)),
              isNotBlank(NameField, p.Name))

DeleteParticipantParamsCheck(p) ==
    AppendErr(AppendErr(<<>>, isId(SessionIdField, p.SessionId)),
              isId(ParticipantIdField, p.ParticipantId))

GetParticipantsParamsCheck(p) == AppendErr(<<>>, isId(SessionIdField, p.SessionId))

\* ------------------------------------------------------------- identifiers

\* the characters the model's identifier generators repeat
GenChars == {"a", "b"}

\* generateSessionId that returns longId whole, all 64 hex digits of the SHA-256
HexIdWhole(c) == Rep(c, 64)

\* sessionutil.go generateSessionId: the first IdLen hex digits of a SHA-256
HexId(c) == Rep(c, IdLen)

\* sessionutils.go generateSessionId: uuid.New().String()
UuidId(c) == [i \in 1..36 |-> IF i \in {9, 14, 19, 24} THEN "-" ELSE c]

\* the values the generator of a handler kind can return; neither generator
\* looks at the identifiers in use
generateSessionId(k) ==
    IF k = "webrtc" THEN {HexId(c) : c \in GenChars} ELSE {UuidId(c) : c \in GenChars}

generateParticipantId(k) == generateSessionId(k)

\* time.Now().Format(timeFormat): the reading of a clock that advances with
\* every call, so the call's serial number
generateCreationDateTime(serial) == serial

\* -------------------------------------------------------------- the inputs

\* a character of the class followed by characters outside it
MixedId == <<"a">> \o Rep("!", IdLen - 1)

\* IdLen characters outside the class
BadId == Rep("!", IdLen)

\* one character short
ShortId == Rep("a", IdLen - 1)

\* what the callers pass: ids, the session ids; pids, the participant ids;
\* names, the names
WellFormedInputs(k) ==
    [ids |-> generateSessionId(k), pids |-> generateParticipantId(k),
     names |-> {<<"a">>, <<"b">>}]

AllInputs(k) ==
    [ids |-> generateSessionId(k) \cup {MixedId, BadId, ShortId},
     pids |-> generateParticipantId(k) \cup {BadId},
     names |-> {<<"a">>, <<"b">>, <<>>, <<" ", "\t">>}]

\* ---------------------------------------------------------------- records

\* Session of part_002 as a caller sees it through the pointer &s.Session
Session(s) ==
    [ref |-> s.ref, Name |-> s.Name, Id |-> s.Id, CreationDateTime |-> s.CreationDateTime]

NoResult ==
    [Session |-> Nil, Participant |-> Nil, Participants |-> Nil, Errors |-> <<>>,
     panic |-> FALSE]

\* an errors result that also carries an empty participants slice
ErrorsResultWithSlice(errors) == [NoResult EXCEPT !.Errors = errors, !.Participants = Ptr(<<>>)]

ErrorsResult(errors) == [NoResult EXCEPT !.Errors = errors]

SessionResult(s) == [NoResult EXCEPT !.Session = s]

\* a result that reports a missing participant as an error
ParticipantResultOrError(p) ==
    IF p = Nil THEN [NoResult EXCEPT !.Errors = <<Msg(<<>>, "participant does not exist")>>]
    ELSE [NoResult EXCEPT !.Participant = p]

ParticipantResult(p) == [NoResult EXCEPT !.Participant = p]

ParticipantsResult(ps) == [NoResult EXCEPT !.Participants = ps]

\* a run-time panic of the calling goroutine (nil pointer dereference)
PanicResult == [NoResult EXCEPT !.panic = TRUE]

SessionDoesNotExist(sessionId) == <<Msg(sessionId, "session %s does not exist")>>

\* the parameters of a call, with the serial number of the call
Params(op, sessionId, participantId, name) ==
    [op |-> op, SessionId |-> sessionId, ParticipantId |-> participantId,
     Name |-> name, serial |-> 0]

NoCall == Params("none", Nil, Nil, Nil)

NoRet == [call |-> NoCall, res |-> NoResult]

\* held when the callers are not the request handlers of sfu.go
NotServing == <<>>

\* What a request handler of sfu.go holds after result, err := handler.Op(params)
\* for the call c: returned is the result as it was at the return; result is
\* what its pointers show now (they point into the registry, not to copies).
Held(c, r) == [call |-> c, returned |-> r, result |-> r]

NoHeld == Held(NoCall, NoResult)

\* the result r as its pointers show it once Name was written to the
\* participant record ref
Overwrite(r, ref, name) ==
    [r EXCEPT
        !.Participant =
            IF @ /= Nil /\ Deref(@).ref = ref THEN Ptr([Deref(@) EXCEPT !.Name = name]) ELSE @,
        !.Participants =
            IF @ = Nil THEN @
            ELSE Ptr([i \in 1..Len(Deref(@)) |->
                        IF Deref(@)[i].ref = ref THEN [Deref(@)[i] EXCEPT !.Name = name]
                        ELSE Deref(@)[i]])]

\* h after p.Name = params.Name on the participant record p points to: every
\* result held that points to the record shows the new name
Written(h, p) ==
    IF h = NotServing THEN h
    ELSE [u \in DOMAIN h |-> [h[u] EXCEPT !.result = Overwrite(@, p.ref, p.Name)]]

\* h after the request handler of thread t got the result r of the call c
Handed(h, t, c, r) == IF h = NotServing THEN h ELSE [h EXCEPT ![t] = Held(c, r)]

\* where a thread goes when its operation returned: a request handler goes on
\* to write the response
AfterReturn == IF held = NotServing THEN "idle" ELSE "encode"

\* twin when the callers call one handler only
NotTwinned == <<>>

\* request when the callers call the handler's methods themselves, not
\* through the router of sfu.go
NotRouted == <<>>

\* no status line: the handler method panicked, net/http recovers the panic
\* of the goroutine and closes the connection without a response
NoResponse == 0

\* no response was written in the last step
NoResponseWritten ==
    [call |-> NoCall, returned |-> NoResult, status |-> NoResponse, body |-> NoResult]

\* ------------------------------------------------------------------- maps

\* m[k] of a Go map that may be nil: the entry or nil
MapGet(m, k) ==
    IF m = Nil THEN Nil
    ELSE IF k \in DOMAIN Deref(m) THEN Ptr(Deref(m)[k]) ELSE Nil

\* m[k] = v that forgets the other entries of the map
MapPutAlone(m, k, v) == Ptr([x \in {k} |-> v])

\* m[k] = v of a map that is not nil
MapPut(m, k, v) ==
    Ptr([x \in (DOMAIN Deref(m)) \cup {k} |-> IF x = k THEN v ELSE Deref(m)[x]])

\* delete(m, k) that leaves the map as it is
MapDeleteNothing(m, k) == m

\* delete(m, k), a no-op on a nil map
MapDelete(m, k) ==
    IF m = Nil THEN Nil
    ELSE Ptr([x \in (DOMAIN Deref(m)) \ {k} |-> Deref(m)[x]])

\* make(map...)
MakeMap == Ptr([x \in {} |-> Nil])

MapKeys(m) == IF m = Nil THEN {} ELSE DOMAIN Deref(m)

\* the session registered under id in the registry ss
SessionAt(ss, id) == Deref(MapGet(ss, id))

\* the ids of the participants of the session under sid in ss
ParticipantIds(ss, sid) == MapKeys(SessionAt(ss, sid).participants)

\* the participant pid of the session under sid in ss
ParticipantAt(ss, sid, pid) == Deref(MapGet(SessionAt(ss, sid).participants, pid))

\* the orders in which range can visit the entries of a map
Orders(keys) ==
    {o \in [1..Cardinality(keys) -> keys] : \A i, j \in DOMAIN o : i /= j => o[i] /= o[j]}

\* a slice that misses the last entry range visits
RangeValuesButLast(m) ==
    {[i \in 1..(Len(o) - 1) |-> Deref(m)[o[i]]] : o \in Orders(MapKeys(m))}

\* the slice GetParticipants fills from range over the map
RangeValues(m) == {[i \in DOMAIN o |-> Deref(m)[o[i]]] : o \in Orders(MapKeys(m))}

\* -------------------------------------------------------------------- Init

InitCommon ==
    /\ locker = 0
    /\ pc = [t \in Threads |-> "idle"]
    /\ call = [t \in Threads |-> NoCall]
    /\ ret = NoRet
    /\ response = NoResponseWritten
    /\ opsStarted = 0
    /\ created = {}
    /\ deleted = {}

\* NewWebRtcSessionHandler()
NewWebRtcSessionHandler ==
    /\ kind = "webrtc"
    /\ sessions = MakeMap
    /\ InitCommon

\* new(sfu.MockSessionHandler) of main: the zero value, sessions is a nil map
NewMockSessionHandler ==
    /\ kind = "mock"
    /\ sessions = Nil
    /\ InitCommon

NewSessionHandler == NewWebRtcSessionHandler \/ NewMockSessionHandler

Init ==
    /\ NewSessionHandler
    /\ opsLimit = MaxOps
    /\ held = NotServing
    /\ twin = NotTwinned
    /\ request = NotRouted

\* ----------------------------------------------------------- common steps

\* thread t calls the operation with parameters c: when its validation gave
\* errors it returns them at once; else it goes on to its first access to the
\* shared state, which is mutex.Lock() when lock is TRUE and else leads to next.
\* What a call does before that step reads only its own parameters.
Start(t, c, errors, lock, next) ==
    LET cs == [c EXCEPT !.serial = opsStarted + 1]
    IN  /\ pc[t] = "idle"
        /\ opsStarted < opsLimit
        /\ opsStarted' = opsStarted + 1
        /\ UNCHANGED <<kind, sessions, created, deleted, opsLimit, twin, request>>
        /\ response' = NoResponseWritten
        /\ IF errors /= <<>>
           THEN /\ UNCHANGED <<call, locker>>
                /\ pc' = [pc EXCEPT ![t] = AfterReturn]
                /\ ret' = [call |-> cs, res |-> ErrorsResult(errors)]
                /\ held' = Handed(held, t, cs, ErrorsResult(errors))
           ELSE /\ lock => locker = 0
                /\ locker' = IF lock THEN t ELSE locker
                /\ pc' = [pc EXCEPT ![t] = IF lock THEN "locked" ELSE next]
                /\ call' = [call EXCEPT ![t] = cs]
                /\ ret' = NoRet
                /\ UNCHANGED held

\* mutex.Lock() of a thread that is past its first access to the shared state
Lock(t) ==
    /\ pc[t] = "lock"
    /\ locker = 0
    /\ locker' = t
    /\ pc' = [pc EXCEPT ![t] = "locked"]
    /\ ret' = NoRet
    /\ response' = NoResponseWritten
    /\ UNCHANGED <<kind, sessions, call, opsStarted, created, deleted, opsLimit, held, twin,
                   request>>

\* a return that leaves the lock locked on the path of a missing session
ReturnToHolding(t, r, h) ==
    /\ pc' = [pc EXCEPT ![t] = AfterReturn]
    /\ call' = [call EXCEPT ![t] = NoCall]
    /\ ret' = [call |-> call[t], res |-> r]
    /\ locker' = IF r.Errors /= Nil THEN locker ELSE IF locker = t THEN 0 ELSE locker
    /\ held' = Handed(h, t, call[t], r)
    /\ response' = NoResponseWritten
    /\ UNCHANGED <<kind, opsStarted, opsLimit, twin, request>>

\* the operation of thread t returns r, h being held after what the operation
\* wrote; the lock, if t holds it, was released
ReturnTo(t, r, h) ==
    /\ pc' = [pc EXCEPT ![t] = AfterReturn]
    /\ call' = [call EXCEPT ![t] = NoCall]
    /\ ret' = [call |-> call[t], res |-> r]
    /\ locker' = IF locker = t THEN 0 ELSE locker
    /\ held' = Handed(h, t, call[t], r)
    /\ response' = NoResponseWritten
    /\ UNCHANGED <<kind, opsStarted, opsLimit, twin, request>>

\* the operation of thread t, which wrote to no record a result points to,
\* returns r
Return(t, r) == ReturnTo(t, r, held)

\* a thread of handler kind k holds the lock inside operation op
Locked(t, k, op) ==
    /\ kind = k
    /\ pc[t] = "locked"
    /\ locker = t
    /\ call[t].op = op

\* --------------------------------------------------- WebRtcSessionHandler

newSession(params, id) ==
    [ref |-> params.serial, Name |-> params.Name, Id |-> id,
     CreationDateTime |-> generateCreationDateTime(params.serial),
     participants |-> MakeMap]

\* newParticipant that leaves SessionId at its zero value
newParticipantNoSession(params, id) ==
    [ref |-> params.serial, Name |-> params.Name, Id |-> id,
     SessionId |-> <<>>,
     CreationDateTime |-> generateCreationDateTime(params.serial)]

newParticipant(params, id) ==
    [ref |-> params.serial, Name |-> params.Name, Id |-> id,
     SessionId |-> params.SessionId,
     CreationDateTime |-> generateCreationDateTime(params.serial)]

\* CreateSession up to h.locker.Lock(): params.check()
WebRtcCreateSession(t, name) ==
    LET params == Params("CreateSession", Nil, Nil, name)
    IN  /\ kind = "webrtc"
        /\ Start(t, params, CreateSessionParamsCheck(params), TRUE, "locked")

\* CreateSession from newSession(params) on: h.sessions[s.Id] = s under the
\* lock, then the return.  newSession runs before the lock is taken and reads
\* no shared state; the step that stores s draws the id it generated.
WebRtcCreateSessionStore(t, id) ==
    LET s == newSession(call[t], id)
    IN  /\ Locked(t, "webrtc", "CreateSession")
        /\ sessions' = MapPut(sessions, s.Id, s)
        /\ created' = created \cup {Session(s)}
        /\ UNCHANGED deleted
        /\ Return(t, SessionResult(Ptr(Session(s))))

WebRtcGetSession(t, id) ==
    LET params == Params("GetSession", id, Nil, Nil)
    IN  /\ kind = "webrtc"
        /\ Start(t, params, GetSessionParamsCheck(params), TRUE, "locked")

\* GetSession with the action of DeleteSession
WebRtcGetSessionActionTaking(t) ==
    LET s == MapGet(sessions, call[t].SessionId)
    IN  /\ Locked(t, "webrtc", "GetSession")
        /\ sessions' = IF s = Nil THEN sessions ELSE MapDelete(sessions, call[t].SessionId)
        /\ UNCHANGED <<created, deleted>>
        /\ Return(t, SessionResult(IF s = Nil THEN Nil ELSE Ptr(Session(Deref(s)))))

\* doActionOnSession with the action of GetSession
WebRtcGetSessionAction(t) ==
    LET s == MapGet(sessions, call[t].SessionId)
    IN  /\ Locked(t, "webrtc", "GetSession")
        /\ UNCHANGED <<sessions, created, deleted>>
        /\ Return(t, SessionResult(IF s = Nil THEN Nil ELSE Ptr(Session(Deref(s)))))

WebRtcDeleteSession(t, id) ==
    LET params == Params("DeleteSession", id, Nil, Nil)
    IN  /\ kind = "webrtc"
        /\ Start(t, params, DeleteSessionParamsCheck(params), TRUE, "locked")

\* doActionOnSession with the action of DeleteSession
WebRtcDeleteSessionAction(t) ==
    LET s == MapGet(sessions, call[t].SessionId)
    IN  /\ Locked(t, "webrtc", "DeleteSession")
        /\ sessions' = IF s = Nil THEN sessions ELSE MapDelete(sessions, call[t].SessionId)
        /\ created' = {c \in created : c.Id /= call[t].SessionId}
        /\ deleted' = IF s = Nil THEN deleted ELSE deleted \cup {Deref(s)}
        /\ Return(t, SessionResult(IF s = Nil THEN Nil ELSE Ptr(Session(Deref(s)))))

\* AddParticipant up to the h.locker.Lock() of doActionOnSession: params.check()
WebRtcAddParticipant(t, sessionId, name) ==
    LET params == Params("AddParticipant", sessionId, Nil, name)
    IN  /\ kind = "webrtc"
        /\ Start(t, params, AddParticipantParamsCheck(params), TRUE, "locked")

\* AddParticipant that ignores the result of doActionOnSession
WebRtcAddParticipantActionUnchecked(t, id) ==
    LET s == MapGet(sessions, call[t].SessionId)
        p == newParticipant(call[t], id)
    IN  /\ Locked(t, "webrtc", "AddParticipant")
        /\ UNCHANGED <<created, deleted>>
        /\ sessions' = IF s = Nil THEN sessions
                       ELSE MapPut(sessions, call[t].SessionId,
                                [Deref(s) EXCEPT !.participants = MapPut(@, p.Id, p)])
        /\ Return(t, ParticipantResult(Ptr(p)))

\* AddParticipant that registers the session anew when doActionOnSession does
\* not find it
WebRtcAddParticipantActionUpsert(t, id) ==
    LET s == MapGet(sessions, call[t].SessionId)
        p == newParticipant(call[t], id)
        holder == IF s = Nil THEN newSession(call[t], call[t].SessionId) ELSE Deref(s)
    IN  /\ Locked(t, "webrtc", "AddParticipant")
        /\ UNCHANGED <<created, deleted>>
        /\ sessions' = MapPut(sessions, call[t].SessionId,
                          [holder EXCEPT !.participants = MapPut(@, p.Id, p)])
        /\ Return(t, ParticipantResult(Ptr(p)))

\* AddParticipant whose action stores the participant under the id of the session
WebRtcAddParticipantActionMiskeyed(t, id) ==
    LET s == MapGet(sessions, call[t].SessionId)
        p == newParticipant(call[t], id)
    IN  /\ Locked(t, "webrtc", "AddParticipant")
        /\ UNCHANGED <<created, deleted>>
        /\ IF s = Nil
           THEN /\ UNCHANGED sessions
                /\ Return(t, ErrorsResult(SessionDoesNotExist(call[t].SessionId)))
           ELSE /\ sessions' = MapPut(sessions, call[t].SessionId,
                       [Deref(s) EXCEPT !.participants = MapPut(@, call[t].SessionId, p)])
                /\ Return(t, ParticipantResult(Ptr(p)))

\* AddParticipant from newParticipant(params) on (which runs before the lock
\* and reads no shared state): doActionOnSession with the storing action
WebRtcAddParticipantAction(t, id) ==
    LET s == MapGet(sessions, call[t].SessionId)
        p == newParticipant(call[t], id)
    IN  /\ Locked(t, "webrtc", "AddParticipant")
        /\ UNCHANGED <<created, deleted>>
        /\ IF s = Nil
           THEN /\ UNCHANGED sessions
                /\ Return(t, ErrorsResult(SessionDoesNotExist(call[t].SessionId)))
           ELSE /\ sessions' = MapPut(sessions, call[t].SessionId,
                       [Deref(s) EXCEPT !.participants = MapPut(@, p.Id, p)])
                /\ Return(t, ParticipantResult(Ptr(p)))

WebRtcGetParticipant(t, sessionId, participantId) ==
    LET params == Params("GetParticipant", sessionId, participantId, Nil)
    IN  /\ kind = "webrtc"
        /\ Start(t, params, GetParticipantParamsCheck(params), TRUE, "locked")

WebRtcGetParticipantAction(t) ==
    LET s == MapGet(sessions, call[t].SessionId)
    IN  /\ Locked(t, "webrtc", "GetParticipant")
        /\ UNCHANGED <<sessions, created, deleted>>
        /\ IF s = Nil
           THEN Return(t, ErrorsResult(SessionDoesNotExist(call[t].SessionId)))
           ELSE Return(t, ParticipantResult(
                       MapGet(Deref(s).participants, call[t].ParticipantId)))

WebRtcUpdateParticipant(t, sessionId, participantId, name) ==
    LET params == Params("UpdateParticipant", sessionId, participantId, name)
    IN  /\ kind = "webrtc"
        /\ Start(t, params, UpdateParticipantParamsCheck(params), TRUE, "locked")

\* UpdateParticipant that also renews the creation time
WebRtcUpdateParticipantActionRestamped(t) ==
    LET s == MapGet(sessions, call[t].SessionId)
        p == MapGet(Deref(s).participants, call[t].ParticipantId)
        updated == [Deref(p) EXCEPT !.Name = call[t].Name,
                        !.CreationDateTime = generateCreationDateTime(call[t].serial)]
    IN  /\ Locked(t, "webrtc", "UpdateParticipant")
        /\ UNCHANGED <<created, deleted>>
        /\ IF s = Nil
           THEN /\ UNCHANGED sessions
                /\ Return(t, ErrorsResult(SessionDoesNotExist(call[t].SessionId)))
           ELSE IF p = Nil
           THEN /\ UNCHANGED sessions
                /\ Return(t, ParticipantResult(Nil))
           ELSE /\ sessions' = MapPut(sessions, call[t].SessionId,
                       [Deref(s) EXCEPT !.participants =
                            MapPut(@, call[t].ParticipantId, updated)])
                /\ Return(t, ParticipantResult(Ptr(updated)))

\* UpdateParticipant whose action writes s.Name instead of p.Name
WebRtcUpdateParticipantActionOnSession(t) ==
    LET s == MapGet(sessions, call[t].SessionId)
        p == MapGet(Deref(s).participants, call[t].ParticipantId)
    IN  /\ Locked(t, "webrtc", "UpdateParticipant")
        /\ UNCHANGED <<created, deleted>>
        /\ IF s = Nil
           THEN /\ UNCHANGED sessions
                /\ Return(t, ErrorsResult(SessionDoesNotExist(call[t].SessionId)))
           ELSE IF p = Nil
           THEN /\ UNCHANGED sessions
                /\ Return(t, ParticipantResult(Nil))
           ELSE /\ sessions' = MapPut(sessions, call[t].SessionId,
                       [Deref(s) EXCEPT !.Name = call[t].Name])
                /\ Return(t, ParticipantResult(p))

WebRtcUpdateParticipantAction(t) ==
    LET s == MapGet(sessions, call[t].SessionId)
        p == MapGet(Deref(s).participants, call[t].ParticipantId)
        updated == [Deref(p) EXCEPT !.Name = call[t].Name]
    IN  /\ Locked(t, "webrtc", "UpdateParticipant")
        /\ UNCHANGED <<created, deleted>>
        /\ IF s = Nil
           THEN /\ UNCHANGED sessions
                /\ Return(t, ErrorsResult(SessionDoesNotExist(call[t].SessionId)))
           ELSE IF p = Nil
           THEN /\ UNCHANGED sessions
                /\ Return(t, ParticipantResult(Nil))
           ELSE /\ sessions' = MapPut(sessions, call[t].SessionId,
                       [Deref(s) EXCEPT !.participants =
                            MapPut(@, call[t].ParticipantId, updated)])
                /\ ReturnTo(t, ParticipantResult(Ptr(updated)), Written(held, updated))

WebRtcDeleteParticipant(t, sessionId, participantId) ==
    LET params == Params("DeleteParticipant", sessionId, participantId, Nil)
    IN  /\ kind = "webrtc"
        /\ Start(t, params, DeleteParticipantParamsCheck(params), TRUE, "locked")

\* DeleteParticipant that answers a missing session as a missing participant
WebRtcDeleteParticipantActionQuiet(t) ==
    LET s == MapGet(sessions, call[t].SessionId)
        p == MapGet(Deref(s).participants, call[t].ParticipantId)
    IN  /\ Locked(t, "webrtc", "DeleteParticipant")
        /\ UNCHANGED <<created, deleted>>
        /\ IF s = Nil \/ p = Nil
           THEN /\ UNCHANGED sessions
                /\ Return(t, ParticipantResult(Nil))
           ELSE /\ sessions' = MapPut(sessions, call[t].SessionId,
                       [Deref(s) EXCEPT !.participants =
                            MapDelete(@, call[t].ParticipantId)])
                /\ Return(t, ParticipantResult(p))

\* DeleteParticipant that deletes the participant id from every session
WebRtcDeleteParticipantActionEverywhere(t) ==
    LET s == MapGet(sessions, call[t].SessionId)
        p == MapGet(Deref(s).participants, call[t].ParticipantId)
    IN  /\ Locked(t, "webrtc", "DeleteParticipant")
        /\ UNCHANGED <<created, deleted>>
        /\ IF s = Nil
           THEN /\ UNCHANGED sessions
                /\ Return(t, ErrorsResult(SessionDoesNotExist(call[t].SessionId)))
           ELSE IF p = Nil
           THEN /\ UNCHANGED sessions
                /\ Return(t, ParticipantResult(Nil))
           ELSE /\ sessions' =
                       Ptr([x \in MapKeys(sessions) |->
                               [Deref(sessions)[x] EXCEPT !.participants =
                                    MapDelete(@, call[t].ParticipantId)]])
                /\ Return(t, ParticipantResult(p))

WebRtcDeleteParticipantAction(t) ==
    LET s == MapGet(sessions, call[t].SessionId)
        p == MapGet(Deref(s).participants, call[t].ParticipantId)
    IN  /\ Locked(t, "webrtc", "DeleteParticipant")
        /\ UNCHANGED <<created, deleted>>
        /\ IF s = Nil
           THEN /\ UNCHANGED sessions
                /\ Return(t, ErrorsResult(SessionDoesNotExist(call[t].SessionId)))
           ELSE IF p = Nil
           THEN /\ UNCHANGED sessions
                /\ Return(t, ParticipantResult(Nil))
           ELSE /\ sessions' = MapPut(sessions, call[t].SessionId,
                       [Deref(s) EXCEPT !.participants =
                            MapDelete(@, call[t].ParticipantId)])
                /\ Return(t, ParticipantResult(p))

WebRtcGetParticipants(t, sessionId) ==
    LET params == Params("GetParticipants", sessionId, Nil, Nil)
    IN  /\ kind = "webrtc"
        /\ Start(t, params, GetParticipantsParamsCheck(params), TRUE, "locked")

\* GetParticipants that answers a missing session with an empty slice
WebRtcGetParticipantsActionEmpty(t) ==
    LET s == MapGet(sessions, call[t].SessionId)
    IN  /\ Locked(t, "webrtc", "GetParticipants")
        /\ UNCHANGED <<sessions, created, deleted>>
        /\ IF s = Nil
           THEN Return(t, ParticipantsResult(Ptr(<<>>)))
           ELSE \E ps \in RangeValues(Deref(s).participants) :
                   Return(t, ParticipantsResult(Ptr(ps)))

WebRtcGetParticipantsAction(t) ==
    LET s == MapGet(sessions, call[t].SessionId)
    IN  /\ Locked(t, "webrtc", "GetParticipants")
        /\ UNCHANGED <<sessions, created, deleted>>
        /\ IF s = Nil
           THEN Return(t, ErrorsResult(SessionDoesNotExist(call[t].SessionId)))
           ELSE \E ps \in RangeValues(Deref(s).participants) :
                   Return(t, ParticipantsResult(Ptr(ps)))

\* the steps of the threads T of a server with a WebRtcSessionHandler, called
\* with the inputs in
NextWebRtc(T, in) ==
    \E t \in T :
        \/ \E name \in in.names : WebRtcCreateSession(t, name)
        \/ \E id \in generateSessionId("webrtc") : WebRtcCreateSessionStore(t, id)
        \/ \E id \in in.ids : WebRtcGetSession(t, id)
        \/ WebRtcGetSessionAction(t)
        \/ \E id \in in.ids : WebRtcDeleteSession(t, id)
        \/ WebRtcDeleteSessionAction(t)
        \/ \E sessionId \in in.ids, name \in in.names : WebRtcAddParticipant(t, sessionId, name)
        \/ \E id \in generateParticipantId("webrtc") : WebRtcAddParticipantAction(t, id)
        \/ \E sessionId \in in.ids, participantId \in in.pids :
                WebRtcGetParticipant(t, sessionId, participantId)
        \/ WebRtcGetParticipantAction(t)
        \/ \E sessionId \in in.ids, participantId \in in.pids, name \in in.names :
                WebRtcUpdateParticipant(t, sessionId, participantId, name)
        \/ WebRtcUpdateParticipantAction(t)
        \/ \E sessionId \in in.ids, participantId \in in.pids :
                WebRtcDeleteParticipant(t, sessionId, participantId)
        \/ WebRtcDeleteParticipantAction(t)
        \/ \E sessionId \in in.ids : WebRtcGetParticipants(t, sessionId)
        \/ WebRtcGetParticipantsAction(t)


\* ----------------------------------------------------- MockSessionHandler

\* RegisteredSession{Session: session}: the participants map is nil
RegisteredSession(params, id) ==
    [ref |-> params.serial, Name |-> params.Name, Id |-> id,
     CreationDateTime |-> generateCreationDateTime(params.serial),
     participants |-> Nil]

\* CreateSession up to its test h.sessions == nil, which reads h.sessions
\* without holding the mutex
MockCreateSession(t, name) ==
    LET params == Params("CreateSession", Nil, Nil, name)
    IN  /\ kind = "mock"
        /\ Start(t, params, AppendErr(<<>>, checkNotBlank(name)), FALSE,
                 IF sessions = Nil THEN "make" ELSE "lock")

\* h.sessions = make(...) of CreateSession, without holding the mutex
MockCreateSessionMake(t) ==
    /\ kind = "mock"
    /\ pc[t] = "make"
    /\ sessions' = MakeMap
    /\ pc' = [pc EXCEPT ![t] = "lock"]
    /\ ret' = NoRet
    /\ response' = NoResponseWritten
    /\ UNCHANGED <<kind, locker, call, opsStarted, created, deleted, opsLimit, held, twin,
                   request>>

\* h.mutex.Lock() of CreateSession
MockCreateSessionLock(t) == kind = "mock" /\ Lock(t)

\* h.sessions[session.Id] = &registeredSession under the mutex, then the
\* return; the step draws the id generateSessionId() gave before the lock
MockCreateSessionStore(t, id) ==
    LET registeredSession == RegisteredSession(call[t], id)
    IN  /\ Locked(t, "mock", "CreateSession")
        /\ sessions' = MapPut(sessions, id, registeredSession)
        /\ created' = created \cup {Session(registeredSession)}
        /\ UNCHANGED deleted
        /\ Return(t, SessionResult(Ptr(Session(registeredSession))))

\* &registeredSession.Session: a nil pointer dereference when the map held no entry
AddressOfSession(registeredSession) ==
    IF registeredSession = Nil THEN PanicResult
    ELSE SessionResult(Ptr(Session(Deref(registeredSession))))

MockGetSession(t, id) ==
    LET params == Params("GetSession", id, Nil, Nil)
    IN  /\ kind = "mock"
        /\ Start(t, params, AppendErr(<<>>, checkSessionId(id)), TRUE, "locked")

MockGetSessionAction(t) ==
    LET registeredSession == MapGet(sessions, call[t].SessionId)
    IN  /\ Locked(t, "mock", "GetSession")
        /\ UNCHANGED <<sessions, created, deleted>>
        /\ Return(t, AddressOfSession(registeredSession))

MockDeleteSession(t, id) ==
    LET params == Params("DeleteSession", id, Nil, Nil)
    IN  /\ kind = "mock"
        /\ Start(t, params, AppendErr(<<>>, checkSessionId(id)), TRUE, "locked")

MockDeleteSessionAction(t) ==
    LET registeredSession == MapGet(sessions, call[t].SessionId)
    IN  /\ Locked(t, "mock", "DeleteSession")
        /\ sessions' = MapDelete(sessions, call[t].SessionId)
        /\ created' = {c \in created : c.Id /= call[t].SessionId}
        /\ deleted' = IF registeredSession = Nil THEN deleted
                      ELSE deleted \cup {Deref(registeredSession)}
        /\ Return(t, AddressOfSession(registeredSession))

\* the first failing check returns alone
MockAddParticipantCheck(p) ==
    IF checkSessionId(p.SessionId) /= Nil THEN AppendErr(<<>>, checkSessionId(p.SessionId))
    ELSE AppendErr(<<>>, checkNotBlank(p.Name))

MockAddParticipant(t, sessionId, name) ==
    LET params == Params("AddParticipant", sessionId, Nil, name)
    IN  /\ kind = "mock"
        /\ Start(t, params, MockAddParticipantCheck(params), TRUE, "locked")

\* AddParticipant that makes the participants map anew on every call
MockAddParticipantActionFresh(t, id) ==
    LET registeredSession == MapGet(sessions, call[t].SessionId)
        rs == Deref(registeredSession)
        participant ==
            [ref |-> call[t].serial, Name |-> call[t].Name, Id |-> id,
             SessionId |-> rs.Id,
             CreationDateTime |-> generateCreationDateTime(call[t].serial)]
    IN  /\ Locked(t, "mock", "AddParticipant")
        /\ UNCHANGED <<created, deleted>>
        /\ IF registeredSession = Nil
           THEN /\ UNCHANGED sessions
                /\ Return(t, ErrorsResult(SessionDoesNotExist(call[t].SessionId)))
           ELSE /\ sessions' = MapPut(sessions, call[t].SessionId,
                       [rs EXCEPT !.participants = MapPut(MakeMap, id, participant)])
                /\ Return(t, ParticipantResult(Ptr(participant)))

MockAddParticipantAction(t, id) ==
    LET registeredSession == MapGet(sessions, call[t].SessionId)
        rs == Deref(registeredSession)
        participants == IF rs.participants = Nil THEN MakeMap ELSE rs.participants
        participant ==
            [ref |-> call[t].serial, Name |-> call[t].Name, Id |-> id,
             SessionId |-> rs.Id,
             CreationDateTime |-> generateCreationDateTime(call[t].serial)]
    IN  /\ Locked(t, "mock", "AddParticipant")
        /\ UNCHANGED <<created, deleted>>
        /\ IF registeredSession = Nil
           THEN /\ UNCHANGED sessions
                /\ Return(t, ErrorsResult(SessionDoesNotExist(call[t].SessionId)))
           ELSE /\ sessions' = MapPut(sessions, call[t].SessionId,
                       [rs EXCEPT !.participants = MapPut(participants, id, participant)])
                /\ Return(t, ParticipantResult(Ptr(participant)))

MockGetParticipant(t, sessionId, participantId) ==
    LET params == Params("GetParticipant", sessionId, participantId, Nil)
    IN  /\ kind = "mock"
        /\ Start(t, params, <<>>, TRUE, "locked")

MockGetParticipantAction(t) ==
    LET registeredSession == MapGet(sessions, call[t].SessionId)
    IN  /\ Locked(t, "mock", "GetParticipant")
        /\ UNCHANGED <<sessions, created, deleted>>
        /\ IF registeredSession = Nil
           THEN Return(t, ErrorsResult(SessionDoesNotExist(call[t].SessionId)))
           ELSE Return(t, ParticipantResult(
                       MapGet(Deref(registeredSession).participants, call[t].ParticipantId)))

MockUpdateParticipant(t, sessionId, participantId, name) ==
    LET params == Params("UpdateParticipant", sessionId, participantId, name)
    IN  /\ kind = "mock"
        /\ Start(t, params, AppendErr(<<>>, checkNotBlank(name)), TRUE, "locked")

\* UpdateParticipant that writes the name to a copy of the participant record
MockUpdateParticipantActionCopy(t) ==
    LET registeredSession == MapGet(sessions, call[t].SessionId)
        rs == Deref(registeredSession)
        participant == MapGet(rs.participants, call[t].ParticipantId)
        updated == [Deref(participant) EXCEPT !.Name = call[t].Name]
    IN  /\ Locked(t, "mock", "UpdateParticipant")
        /\ UNCHANGED <<sessions, created, deleted>>
        /\ IF registeredSession = Nil
           THEN Return(t, ErrorsResult(SessionDoesNotExist(call[t].SessionId)))
           ELSE IF participant = Nil
           THEN Return(t, NoResult)
           ELSE Return(t, ParticipantResult(Ptr(updated)))

MockUpdateParticipantAction(t) ==
    LET registeredSession == MapGet(sessions, call[t].SessionId)
        rs == Deref(registeredSession)
        participant == MapGet(rs.participants, call[t].ParticipantId)
        updated == [Deref(participant) EXCEPT !.Name = call[t].Name]
    IN  /\ Locked(t, "mock", "UpdateParticipant")
        /\ UNCHANGED <<created, deleted>>
        /\ IF registeredSession = Nil
           THEN /\ UNCHANGED sessions
                /\ Return(t, ErrorsResult(SessionDoesNotExist(call[t].SessionId)))
           ELSE IF participant = Nil
           THEN /\ UNCHANGED sessions
                /\ Return(t, NoResult)
           ELSE /\ sessions' = MapPut(sessions, call[t].SessionId,
                       [rs EXCEPT !.participants =
                            MapPut(@, call[t].ParticipantId, updated)])
                /\ ReturnTo(t, ParticipantResult(Ptr(updated)), Written(held, updated))

MockDeleteParticipant(t, sessionId, participantId) ==
    LET params == Params("DeleteParticipant", sessionId, participantId, Nil)
    IN  /\ kind = "mock"
        /\ Start(t, params, <<>>, TRUE, "locked")

\* DeleteParticipant that empties the participants map of the session
MockDeleteParticipantActionClear(t) ==
    LET registeredSession == MapGet(sessions, call[t].SessionId)
        rs == Deref(registeredSession)
        participant == MapGet(rs.participants, call[t].ParticipantId)
    IN  /\ Locked(t, "mock", "DeleteParticipant")
        /\ UNCHANGED <<created, deleted>>
        /\ IF registeredSession = Nil
           THEN /\ UNCHANGED sessions
                /\ Return(t, ErrorsResult(SessionDoesNotExist(call[t].SessionId)))
           ELSE IF participant = Nil
           THEN /\ UNCHANGED sessions
                /\ Return(t, NoResult)
           ELSE /\ sessions' = MapPut(sessions, call[t].SessionId,
                       [rs EXCEPT !.participants = MakeMap])
                /\ Return(t, ParticipantResult(participant))

\* delete(registeredSession.participants, participant.Id)
MockDeleteParticipantAction(t) ==
    LET registeredSession == MapGet(sessions, call[t].SessionId)
        rs == Deref(registeredSession)
        participant == MapGet(rs.participants, call[t].ParticipantId)
    IN  /\ Locked(t, "mock", "DeleteParticipant")
        /\ UNCHANGED <<created, deleted>>
        /\ IF registeredSession = Nil
           THEN /\ UNCHANGED sessions
                /\ Return(t, ErrorsResult(SessionDoesNotExist(call[t].SessionId)))
           ELSE IF participant = Nil
           THEN /\ UNCHANGED sessions
                /\ Return(t, NoResult)
           ELSE /\ sessions' = MapPut(sessions, call[t].SessionId,
                       [rs EXCEPT !.participants = MapDelete(@, Deref(participant).Id)])
                /\ Return(t, ParticipantResult(participant))

MockGetParticipants(t, sessionId) ==
    LET params == Params("GetParticipants", sessionId, Nil, Nil)
    IN  /\ kind = "mock"
        /\ Start(t, params, <<>>, TRUE, "locked")

\* GetParticipants that ranges over the participants of every session
MockGetParticipantsActionAll(t) ==
    LET registeredSession == MapGet(sessions, call[t].SessionId)
        all == UNION {{ParticipantAt(sessions, sid, pid) : pid \in ParticipantIds(sessions, sid)} :
                        sid \in MapKeys(sessions)}
    IN  /\ Locked(t, "mock", "GetParticipants")
        /\ UNCHANGED <<sessions, created, deleted>>
        /\ IF registeredSession = Nil
           THEN Return(t, ErrorsResult(SessionDoesNotExist(call[t].SessionId)))
           ELSE \E ps \in {o \in [1..Cardinality(all) -> all] :
                              \A i, j \in DOMAIN o : i /= j => o[i] /= o[j]} :
                   Return(t, ParticipantsResult(Ptr(ps)))

MockGetParticipantsAction(t) ==
    LET registeredSession == MapGet(sessions, call[t].SessionId)
    IN  /\ Locked(t, "mock", "GetParticipants")
        /\ UNCHANGED <<sessions, created, deleted>>
        /\ IF registeredSession = Nil
           THEN Return(t, ErrorsResult(SessionDoesNotExist(call[t].SessionId)))
           ELSE \E ps \in RangeValues(Deref(registeredSession).participants) :
                   Return(t, ParticipantsResult(Ptr(ps)))

\* the steps of the threads T of a server with a MockSessionHandler
NextMock(T, in) ==
    \E t \in T :
        \/ \E name \in in.names : MockCreateSession(t, name)
        \/ MockCreateSessionMake(t)
        \/ MockCreateSessionLock(t)
        \/ \E id \in generateSessionId("mock") : MockCreateSessionStore(t, id)
        \/ \E id \in in.ids : MockGetSession(t, id)
        \/ MockGetSessionAction(t)
        \/ \E id \in in.ids : MockDeleteSession(t, id)
        \/ MockDeleteSessionAction(t)
        \/ \E sessionId \in in.ids, name \in in.names : MockAddParticipant(t, sessionId, name)
        \/ \E id \in generateParticipantId("mock") : MockAddParticipantAction(t, id)
        \/ \E sessionId \in in.ids, participantId \in in.pids :
                MockGetParticipant(t, sessionId, participantId)
        \/ MockGetParticipantAction(t)
        \/ \E sessionId \in in.ids, participantId \in in.pids, name \in in.names :
                MockUpdateParticipant(t, sessionId, participantId, name)
        \/ MockUpdateParticipantAction(t)
        \/ \E sessionId \in in.ids, participantId \in in.pids :
                MockDeleteParticipant(t, sessionId, participantId)
        \/ MockDeleteParticipantAction(t)
        \/ \E sessionId \in in.ids : MockGetParticipants(t, sessionId)
        \/ MockGetParticipantsAction(t)

\* --------------------------------------------------------- specifications

\* one caller at a time, with every input
Next ==
    \/ NextWebRtc({1}, AllInputs("webrtc"))
    \/ NextMock({1}, AllInputs("mock"))

Spec == Init /\ [][Next]_vars

\* concurrent callers, with well-formed inputs
NextConc ==
    \/ NextWebRtc(Threads, WellFormedInputs("webrtc"))
    \/ NextMock(Threads, WellFormedInputs("mock"))

SpecConc == Init /\ [][NextConc]_vars

MaxLongOps == 5

InitLong ==
    /\ NewSessionHandler
    /\ opsLimit = MaxLongOps
    /\ held = NotServing
    /\ twin = NotTwinned
    /\ request = NotRouted

\* one caller at a time, with well-formed inputs
NextLong ==
    \/ NextWebRtc({1}, WellFormedInputs("webrtc"))
    \/ NextMock({1}, WellFormedInputs("mock"))

\* longer sequences of calls
SpecLong == InitLong /\ [][NextLong]_vars

\* --------------------------------------------------------------- scheduling

MaxLiveOps == 3

\* a step of thread t inside the operation it has started
Progress(t) ==
    /\ pc[t] /= "idle"
    /\ \/ NextWebRtc({t}, WellFormedInputs("webrtc"))
       \/ NextMock({t}, WellFormedInputs("mock"))

\* The Go scheduler runs every runnable goroutine again; sync.Mutex hands the
\* lock to a goroutine that has waited for it (starvation mode), so a waiting
\* Lock() that can return again and again does return.
Fairness ==
    \A t \in Threads : WF_vars(Progress(t)) /\ SF_vars(MockCreateSessionLock(t))

InitLive ==
    /\ NewSessionHandler
    /\ opsLimit = MaxLiveOps
    /\ held = NotServing
    /\ twin = NotTwinned
    /\ request = NotRouted

\* concurrent callers under a fair scheduler
SpecLive == InitLive /\ [][NextConc]_vars /\ Fairness

\* ------------------------------------------------------------- transport

\* the net/http status codes sfu.go writes
StatusOK == 200

StatusCreated == 201

StatusBadRequest == 400

StatusNotFound == 404

StatusInternalServerError == 500

StatusNotImplemented == 501

\* onSessionsRequest that answers a creation with StatusOK
onSessionsRequestOK(result) ==
    IF result.panic THEN NoResponse
    ELSE IF result.Errors /= Nil THEN StatusBadRequest
    ELSE StatusOK

\* The request handlers of sfu.go from the return of the SessionHandler method
\* on: the status they write for its result.  Every method of both handlers
\* returns a nil error on every path, so the err != nil branch
\* (StatusInternalServerError) is not taken; json.Encoder.Encode of a result
\* record does not fail.
onSessionsRequest(result) ==
    IF result.panic THEN NoResponse
    ELSE IF result.Errors /= Nil THEN StatusBadRequest
    ELSE StatusCreated

onGetSessionRequest(result) ==
    IF result.panic THEN NoResponse
    ELSE IF result.Errors /= Nil THEN StatusBadRequest
    ELSE IF result.Session = Nil THEN StatusNotFound
    ELSE StatusOK

onDeleteSessionRequest(result) ==
    IF result.panic THEN NoResponse
    ELSE IF result.Errors /= Nil THEN StatusBadRequest
    ELSE IF result.Session = Nil THEN StatusNotFound
    ELSE StatusOK

\* onGetSessionParticipantsRequest that answers an empty slice as not found
onGetSessionParticipantsRequestOrNotFound(result) ==
    IF result.panic THEN NoResponse
    ELSE IF result.Errors /= Nil THEN StatusBadRequest
    ELSE IF result.Participants = Nil \/ Deref(result.Participants) = <<>> THEN StatusNotFound
    ELSE StatusOK

onGetSessionParticipantsRequest(result) ==
    IF result.panic THEN NoResponse
    ELSE IF result.Errors /= Nil THEN StatusBadRequest
    ELSE StatusOK

onPostSessionParticipantsRequest(result) ==
    IF result.panic THEN NoResponse
    ELSE IF result.Errors /= Nil THEN StatusBadRequest
    ELSE StatusCreated

onGetSessionParticipantRequest(result) ==
    IF result.panic THEN NoResponse
    ELSE IF result.Errors /= Nil THEN StatusBadRequest
    ELSE IF result.Participant = Nil THEN StatusNotFound
    ELSE StatusOK

onUpdateSessionParticipantRequest(result) ==
    IF result.panic THEN NoResponse
    ELSE IF result.Errors /= Nil THEN StatusBadRequest
    ELSE IF result.Participant = Nil THEN StatusNotFound
    ELSE StatusOK

onDeleteSessionParticipantRequest(result) ==
    IF result.panic THEN NoResponse
    ELSE IF result.Errors /= Nil THEN StatusBadRequest
    ELSE IF result.Participant = Nil THEN StatusNotFound
    ELSE StatusOK

\* the status the server answers the request that made the call c with, when
\* the call returned result
WriteHeader(c, result) ==
    CASE c.op = "CreateSession" -> onSessionsRequest(result)
      [] c.op = "GetSession" -> onGetSessionRequest(result)
      [] c.op = "DeleteSession" -> onDeleteSessionRequest(result)
      [] c.op = "GetParticipants" -> onGetSessionParticipantsRequest(result)
      [] c.op = "AddParticipant" -> onPostSessionParticipantsRequest(result)
      [] c.op = "GetParticipant" -> onGetSessionParticipantRequest(result)
      [] c.op = "UpdateParticipant" -> onUpdateSessionParticipantRequest(result)
      [] c.op = "DeleteParticipant" -> onDeleteSessionParticipantRequest(result)
      [] OTHER -> NoResponse

\* ------------------------------------------------------ concurrent requests

MaxRequests == 3

\* what a read of a string gives while another goroutine assigns to it: the
\* old or the new value, or the pointer word of one with the length word of
\* the other
Torn == <<"?">>

\* the UpdateParticipant calls of other threads that hold the lock and are at
\* or before their p.Name = params.Name: the record they write and the name
Writing(t) ==
    {[ref |-> ParticipantAt(sessions, call[u].SessionId, call[u].ParticipantId).ref,
      Name |-> call[u].Name] :
        u \in {v \in Threads \ {t} :
                 /\ pc[v] = "locked"
                 /\ call[v].op = "UpdateParticipant"
                 /\ call[v].SessionId \in MapKeys(sessions)
                 /\ call[v].ParticipantId \in ParticipantIds(sessions, call[v].SessionId)}}

\* what json.Encoder.Encode can read through the pointers of the result
\* thread t holds: it runs after the lock was released, so a write that runs
\* under the lock is not ordered with its reads
EncodeReads(t) ==
    {held[t].result}
      \cup UNION {{Overwrite(held[t].result, w.ref, n) : n \in {w.Name, Torn}} :
                     w \in Writing(t)}

\* The request handler of thread t from the return of the SessionHandler
\* method on: w.WriteHeader(status), then json.NewEncoder(w).Encode(result),
\* unless it answered StatusNotFound and returned, or the method panicked.
Encode(t) ==
    LET status == WriteHeader(held[t].call, held[t].returned)
    IN  /\ held /= NotServing
        /\ pc[t] = "encode"
        /\ pc' = [pc EXCEPT ![t] = "idle"]
        /\ ret' = NoRet
        /\ held' = [held EXCEPT ![t] = NoHeld]
        /\ \E body \in IF status \in {StatusNotFound, NoResponse} THEN {NoResult}
                        ELSE EncodeReads(t) :
               response' = [call |-> held[t].call, returned |-> held[t].returned,
                            status |-> status, body |-> body]
            /\ UNCHANGED <<kind, sessions, locker, call, opsStarted, created, deleted, opsLimit,
                           twin, request>>

\* net/http runs each request in a goroutine of its own: the threads are
\* requests in progress, with well-formed inputs
NextServe ==
    \/ NextWebRtc(Threads, WellFormedInputs("webrtc"))
    \/ NextMock(Threads, WellFormedInputs("mock"))
    \/ \E t \in Threads : Encode(t)

\* Server.Start(address, handler)
InitServe ==
    /\ NewSessionHandler
    /\ opsLimit = MaxRequests
    /\ held = [t \in Threads |-> NoHeld]
    /\ twin = NotTwinned
    /\ request = NotRouted

SpecServe == InitServe /\ [][NextServe]_vars

\* ---------------------------------------------------- end-to-end scenario

MaxScript == 5

\* One client runs the end-to-end scenario against the server, each request
\* built from the responses before it (ret holds the last response): create a
\* session; add a participant to it; update the participant; delete the
\* session; get the participant.
NextE2E ==
    \E t \in {1} :
        \/ /\ opsStarted = 0
           /\ \E name \in WellFormedInputs(kind).names :
                 WebRtcCreateSession(t, name) \/ MockCreateSession(t, name)
        \/ \E id \in generateSessionId(kind) :
                WebRtcCreateSessionStore(t, id) \/ MockCreateSessionStore(t, id)
        \/ MockCreateSessionMake(t)
        \/ MockCreateSessionLock(t)
        \/ /\ opsStarted = 1
           /\ ret.res.Session /= Nil
           /\ \E name \in WellFormedInputs(kind).names :
                 LET S == Deref(ret.res.Session).Id
                 IN  WebRtcAddParticipant(t, S, name) \/ MockAddParticipant(t, S, name)
        \/ \E id \in generateParticipantId(kind) :
                WebRtcAddParticipantAction(t, id) \/ MockAddParticipantAction(t, id)
        \/ /\ opsStarted = 2
           /\ ret.res.Participant /= Nil
           /\ \E name \in WellFormedInputs(kind).names :
                 LET S == Deref(ret.res.Participant).SessionId
                     P == Deref(ret.res.Participant).Id
                 IN  \/ WebRtcUpdateParticipant(t, S, P, name)
                     \/ MockUpdateParticipant(t, S, P, name)
        \/ WebRtcUpdateParticipantAction(t)
        \/ MockUpdateParticipantAction(t)
        \/ /\ opsStarted = 3
           /\ ret.res.Participant /= Nil
           /\ LET S == Deref(ret.res.Participant).SessionId
              IN  WebRtcDeleteSession(t, S) \/ MockDeleteSession(t, S)
        \/ WebRtcDeleteSessionAction(t)
        \/ MockDeleteSessionAction(t)
        \/ /\ opsStarted = 4
           /\ ret.res.Session /= Nil
           /\ \E d \in deleted :
                 /\ d.Id = Deref(ret.res.Session).Id
                 /\ \E P \in MapKeys(d.participants) :
                       \/ WebRtcGetParticipant(t, d.Id, P)
                       \/ MockGetParticipant(t, d.Id, P)
        \/ WebRtcGetParticipantAction(t)
        \/ MockGetParticipantAction(t)

InitE2E ==
    /\ NewSessionHandler
    /\ opsLimit = MaxScript
    /\ held = NotServing
    /\ twin = NotTwinned
    /\ request = NotRouted

SpecE2E == InitE2E /\ [][NextE2E]_vars

\* ------------------------------------------------- the two implementations

MaxTwinCalls == 6

\* the other implementation of SessionHandler: its kind, its registry, and
\* the call it was last called with and that call's result
Twin(k, ss, c, r) == [kind |-> k, sessions |-> ss, call |-> c, res |-> r]

\* the identifier that the generator of a handler of kind k returns when the
\* generator that returned id is at the same draw; any other string is passed
\* to both handlers as it is
ToKind(k, id) ==
    IF \E c \in GenChars : id \in {HexId(c), UuidId(c)}
    THEN IF k = "webrtc" THEN HexId(id[1]) ELSE UuidId(id[1])
    ELSE id

\* the call c to a handler of kind k has the inputs of the call d to the other
SameCall(k, c, d) ==
    /\ c.op = d.op
    /\ c.Name = d.Name
    /\ c.SessionId = ToKind(k, d.SessionId)
    /\ c.ParticipantId = ToKind(k, d.ParticipantId)

\* The caller turns from the handler that has just returned to the other one,
\* to call it with the same inputs.
Switch(t) ==
    /\ twin /= NotTwinned
    /\ pc[t] = "idle"
    /\ opsStarted % 2 = 1
    /\ ret.call.op /= "none"
    /\ kind' = twin.kind
    /\ sessions' = twin.sessions
    /\ twin' = Twin(kind, sessions, ret.call, ret.res)
    /\ ret' = NoRet
    /\ response' = NoResponseWritten
    /\ UNCHANGED <<locker, pc, call, opsStarted, created, deleted, opsLimit, held, request>>

\* what the caller passes to both handlers: the ids the handlers generate and
\* a string neither accepts, a name and the empty name
TwinInputs(k) ==
    [ids |-> generateSessionId(k) \cup {BadId},
     pids |-> generateParticipantId(k) \cup {BadId},
     names |-> {<<"a">>, <<>>}]

\* What the caller of both handlers lets happen in a step: every second call
\* is the call before it over again, made to the other handler, and
\* generateSessionId() / generateParticipantId() are at the same draw in both.
Replays ==
    LET c == IF ret'.call.op /= "none" THEN ret'.call ELSE call'[1]
    IN  /\ opsStarted' = opsStarted + 1
            => \/ opsStarted % 2 = 0
               \/ ret = NoRet /\ SameCall(kind, c, twin.call)
        /\ (/\ opsStarted' % 2 = 0
            /\ ret'.call.op = "CreateSession"
            /\ ret'.res.Session /= Nil
            /\ twin.res.Session /= Nil)
            => Deref(ret'.res.Session).Id = ToKind(kind, Deref(twin.res.Session).Id)
        /\ (/\ opsStarted' % 2 = 0
            /\ ret'.call.op = "AddParticipant"
            /\ ret'.res.Participant /= Nil
            /\ twin.res.Participant /= Nil)
            => Deref(ret'.res.Participant).Id = ToKind(kind, Deref(twin.res.Participant).Id)

\* one caller calls a WebRtcSessionHandler and a MockSessionHandler in turn,
\* each operation on both
NextTwin ==
    \/ NextWebRtc({1}, TwinInputs("webrtc")) /\ Replays
    \/ NextMock({1}, TwinInputs("mock")) /\ Replays
    \/ Switch(1)

\* NewWebRtcSessionHandler() and new(sfu.MockSessionHandler)
InitTwin ==
    /\ NewSessionHandler
    /\ opsLimit = MaxTwinCalls
    /\ held = NotServing
    /\ twin = IF kind = "webrtc" THEN Twin("mock", Nil, NoCall, NoResult)
              ELSE Twin("webrtc", MakeMap, NoCall, NoResult)
    /\ request = NotRouted

SpecTwin == InitTwin /\ [][NextTwin]_vars

\* ------------------------------------------------------------------ routing

MaxHttpRequests == 3

\* a token of a JSON text: punctuation, a string, a number or null
Tok(t, v) == [t |-> t, v |-> v]

Punct(c) == Tok("punct", <<c>>)

Str(v) == Tok("str", v)

Num(v) == Tok("num", v)

Null == Tok("null", <<>>)

\* the zero value of a parameter record
ZeroParams == [Name |-> <<>>, SessionId |-> <<>>, ParticipantId |-> <<>>]

\* the outcome of a Decode whose error is dropped
DecodedUnchecked(err, p) == [err |-> FALSE, params |-> p]

\* the outcome of Decode: err is whether it returned an error
Decoded(err, p) == [err |-> err, params |-> p]

\* the field of a parameter record with the json tag key, fields being the
\* tags of the record's type: "none" for a key the type has no field for
FieldOf(key, fields) ==
    IF key \notin fields THEN "none"
    ELSE CASE key = NameField -> "Name"
           [] key = SessionIdField -> "SessionId"
           [] key = ParticipantIdField -> "ParticipantId"
           [] OTHER -> "none"

\* encoding/json reading the members of an object from token i on: a string
\* sets the field of its key; a number for a string field is an
\* UnmarshalTypeError, reported when the object has been read; null and the
\* members without a field are skipped; anything else is a syntax error
RECURSIVE Members(_, _, _, _, _)
Members(b, i, fields, p, typeErr) ==
    IF i + 3 > Len(b) THEN Decoded(TRUE, p)
    ELSE IF ~(/\ b[i].t = "str"
              /\ b[i + 1] = Punct(":")
              /\ b[i + 2].t \in {"str", "num", "null"}) THEN Decoded(TRUE, p)
    ELSE LET f == FieldOf(b[i].v, fields)
             q == IF f /= "none" /\ b[i + 2].t = "str" THEN [p EXCEPT ![f] = b[i + 2].v]
                  ELSE p
             e == typeErr \/ (f /= "none" /\ b[i + 2].t = "num")
         IN  IF b[i + 3] = Punct("}") THEN Decoded(e, q)
             ELSE IF b[i + 3] = Punct(",") THEN Members(b, i + 4, fields, q, e)
             ELSE Decoded(TRUE, q)

\* json.NewDecoder(r.Body).Decode(&params) of a body b, params being the zero
\* value of a type with the json tags fields: an empty body is io.EOF, a text
\* cut short or malformed a syntax error, a value that is no object an
\* UnmarshalTypeError; null leaves params as it is
Decode(b, fields) ==
    IF Len(b) = 0 THEN Decoded(TRUE, ZeroParams)
    ELSE IF b[1] = Null THEN Decoded(FALSE, ZeroParams)
    ELSE IF b[1] /= Punct("{") THEN Decoded(TRUE, ZeroParams)
    ELSE IF Len(b) >= 2 /\ b[2] = Punct("}") THEN Decoded(FALSE, ZeroParams)
    ELSE Members(b, 2, fields, ZeroParams, FALSE)

\* the json tags of CreateSessionParams, AddParticipantParams and
\* UpdateParticipantParams
CreateSessionParams == {NameField}

AddParticipantParams == {SessionIdField, NameField}

UpdateParticipantParams == {SessionIdField, ParticipantIdField, NameField}

\* isPutOrPost that also takes PATCH
isPutOrPostOrPatch(method) == method \in {"PUT", "POST", "PATCH"}

isPutOrPost(method) == method = "PUT" \/ method = "POST"

isGet(method) == method = "GET"

isDelete(method) == method = "DELETE"

\* no SessionHandler method: the request handler answers StatusNotImplemented
NotSupported == "none"

\* The method dispatch of the four request handlers the router of Server.Start
\* registers, one for each path: the SessionHandler method the request leads to.
onSessionsRequestMethod(method) ==
    IF isPutOrPost(method) = FALSE THEN NotSupported ELSE "CreateSession"

onSessionRequest(method) ==
    IF isGet(method) THEN "GetSession"
    ELSE IF isDelete(method) THEN "DeleteSession"
    ELSE NotSupported

onSessionParticipantsRequest(method) ==
    IF isGet(method) THEN "GetParticipants"
    ELSE IF isPutOrPost(method) THEN "AddParticipant"
    ELSE NotSupported

onSessionParticipantRequest(method) ==
    IF isGet(method) THEN "GetParticipant"
    ELSE IF isPutOrPost(method) THEN "UpdateParticipant"
    ELSE IF isDelete(method) THEN "DeleteParticipant"
    ELSE NotSupported

\* router.HandleFunc: the paths and their handlers
Route(r) ==
    CASE r.path = "/sessions" -> onSessionsRequestMethod(r.method)
      [] r.path = "/sessions/{sessionId}" -> onSessionRequest(r.method)
      [] r.path = "/sessions/{sessionId}/participants" ->
            onSessionParticipantsRequest(r.method)
      [] r.path = "/sessions/{sessionId}/participants/{participantId}" ->
            onSessionParticipantRequest(r.method)
      [] OTHER -> NotSupported

\* an HTTP request: the path it matched, its method, mux.Vars and its body
Request(path, method, sessionId, participantId, body) ==
    [path |-> path, method |-> method, sessionId |-> sessionId,
     participantId |-> participantId, body |-> body, serial |-> 0]

NoRequest == Request("", "", Nil, Nil, <<>>)

\* the request methods the clients send
Methods == {"GET", "PUT", "POST", "DELETE", "PATCH"}

\* the bodies the clients send: {"name":"a"}
NameBody == <<Punct("{"), Str(NameField), Punct(":"), Str(<<"a">>), Punct("}")>>

\* {}
EmptyObjectBody == <<Punct("{"), Punct("}")>>

\* no body at all
NoBody == <<>>

\* {"name":1}
NumberNameBody == <<Punct("{"), Str(NameField), Punct(":"), Num(<<"1">>), Punct("}")>>

\* {"name":"a" cut short
CutShortBody == <<Punct("{"), Str(NameField), Punct(":"), Str(<<"a">>)>>

Bodies == {NameBody, EmptyObjectBody, NoBody, NumberNameBody, CutShortBody}

\* the requests the clients send to a server whose handler is of kind k
Requests(k) ==
    LET in == WellFormedInputs(k)
    IN  {Request("/sessions", m, Nil, Nil, b) : m \in Methods, b \in Bodies}
          \cup {Request("/sessions/{sessionId}", m, s, Nil, <<>>) : m \in Methods, s \in in.ids}
          \cup {Request("/sessions/{sessionId}/participants", m, s, Nil, b) :
                    m \in Methods, s \in in.ids, b \in Bodies}
          \cup {Request("/sessions/{sessionId}/participants/{participantId}", m, s, p, b) :
                    m \in Methods, s \in in.ids, p \in in.pids, b \in Bodies}

\* the server has received a request and has not yet given it to its handler
Pending == request /= NotRouted /\ request.serial = opsStarted + 1

\* net/http reads a request and the router finds the handler of its path
Receive(t, r) ==
    /\ request /= NotRouted
    /\ pc[t] = "idle"
    /\ opsStarted < opsLimit
    /\ ~Pending
    /\ request' = [r EXCEPT !.serial = opsStarted + 1]
    /\ ret' = NoRet
    /\ response' = NoResponseWritten
    /\ UNCHANGED <<kind, sessions, locker, pc, call, opsStarted, created, deleted, opsLimit,
                   held, twin>>

\* a request handler that writes status and returns without having called the
\* SessionHandler
Refuse(t, status) ==
    /\ pc[t] = "idle"
    /\ opsStarted' = opsStarted + 1
    /\ ret' = NoRet
    /\ response' = [NoResponseWritten EXCEPT !.status = status]
    /\ UNCHANGED <<kind, sessions, locker, pc, call, created, deleted, opsLimit, held, twin,
                   request>>

\* the else branch of the method dispatch: w.WriteHeader(http.StatusNotImplemented)
NotImplemented(t) ==
    /\ Pending
    /\ Route(request) = NotSupported
    /\ Refuse(t, StatusNotImplemented)

\* what Decode makes of the body of the request for the handler it is routed to
DecodedBody ==
    Decode(request.body,
           CASE Route(request) = "CreateSession" -> CreateSessionParams
             [] Route(request) = "AddParticipant" -> AddParticipantParams
             [] OTHER -> UpdateParticipantParams)

\* Decode returned an error: w.WriteHeader(http.StatusBadRequest) and return
DecodingError(t) ==
    /\ Pending
    /\ Route(request) \in {"CreateSession", "AddParticipant", "UpdateParticipant"}
    /\ DecodedBody.err
    /\ Refuse(t, StatusBadRequest)

\* The request handlers up to the call of the SessionHandler method, and the
\* method up to its first access to the registry: the parameters are the
\* decoded body (where the handler decodes one) and mux.Vars.
Handle(t) ==
    LET op == Route(request)
        S == request.sessionId
        P == request.participantId
        name == DecodedBody.params.Name
    IN  /\ Pending
        /\ \/ /\ op = "CreateSession"
              /\ ~DecodedBody.err
              /\ WebRtcCreateSession(t, name) \/ MockCreateSession(t, name)
           \/ /\ op = "GetSession"
              /\ WebRtcGetSession(t, S) \/ MockGetSession(t, S)
           \/ /\ op = "DeleteSession"
              /\ WebRtcDeleteSession(t, S) \/ MockDeleteSession(t, S)
           \/ /\ op = "GetParticipants"
              /\ WebRtcGetParticipants(t, S) \/ MockGetParticipants(t, S)
           \/ /\ op = "AddParticipant"
              /\ ~DecodedBody.err
              /\ WebRtcAddParticipant(t, S, name) \/ MockAddParticipant(t, S, name)
           \/ /\ op = "GetParticipant"
              /\ WebRtcGetParticipant(t, S, P) \/ MockGetParticipant(t, S, P)
           \/ /\ op = "UpdateParticipant"
              /\ ~DecodedBody.err
              /\ WebRtcUpdateParticipant(t, S, P, name) \/ MockUpdateParticipant(t, S, P, name)
           \/ /\ op = "DeleteParticipant"
              /\ WebRtcDeleteParticipant(t, S, P) \/ MockDeleteParticipant(t, S, P)

\* the steps inside the SessionHandler methods, from the first access to the
\* registry to the return
Inside(t) ==
    \/ \E id \in generateSessionId(kind) :
            WebRtcCreateSessionStore(t, id) \/ MockCreateSessionStore(t, id)
    \/ MockCreateSessionMake(t)
    \/ MockCreateSessionLock(t)
    \/ WebRtcGetSessionAction(t) \/ MockGetSessionAction(t)
    \/ WebRtcDeleteSessionAction(t) \/ MockDeleteSessionAction(t)
    \/ \E id \in generateParticipantId(kind) :
            WebRtcAddParticipantAction(t, id) \/ MockAddParticipantAction(t, id)
    \/ WebRtcGetParticipantAction(t) \/ MockGetParticipantAction(t)
    \/ WebRtcUpdateParticipantAction(t) \/ MockUpdateParticipantAction(t)
    \/ WebRtcDeleteParticipantAction(t) \/ MockDeleteParticipantAction(t)
    \/ WebRtcGetParticipantsAction(t) \/ MockGetParticipantsAction(t)

\* the server serving one request after the other
NextHttp ==
    \E t \in {1} :
        \/ \E r \in Requests("webrtc") : kind = "webrtc" /\ Receive(t, r)
        \/ \E r \in Requests("mock") : kind = "mock" /\ Receive(t, r)
        \/ NotImplemented(t)
        \/ DecodingError(t)
        \/ Handle(t)
        \/ Inside(t)
        \/ Encode(t)

\* Server.Start(address, handler)
InitHttp ==
    /\ NewSessionHandler
    /\ opsLimit = MaxHttpRequests
    /\ held = [t \in Threads |-> NoHeld]
    /\ twin = NotTwinned
    /\ request = NoRequest

SpecHttp == InitHttp /\ [][NextHttp]_vars

\* ================================================================= claims

\* the ids under which the handler holds a session
Registered == MapKeys(sessions)

\* the operation whose return produced the current state, "none" if the last
\* step was not a return
Returned == ret.call.op

\* C1: once CreateSession has returned a session, a GetSession with its id
\* (no DeleteSession of that id since) returns that same session and no
\* errors, whatever the handler and the interleaving, concurrent CreateSession
\* calls on a freshly constructed handler included.  Stated for the sessions
\* whose id no other returned session shares.
C1_GetSessionReturnsCreated ==
    \A c \in created :
        (/\ Returned = "GetSession"
         /\ ret.call.SessionId = c.Id
         /\ \A o \in created : o.Id = c.Id => o = c)
        => ret.res = SessionResult(Ptr(c))

\* C2 as stated: the id CreateSession generates is never one that is
\* registered, so every CreateSession that returns a session raises the number
\* of registered sessions by exactly one and leaves every session that was
\* registered, its participants included, as it was.
C2_CreateSessionAlwaysAddsOne ==
    [][(Returned' = "CreateSession" /\ ret'.res.Session /= Nil)
        => /\ Cardinality(Registered') = Cardinality(Registered) + 1
           /\ \A id \in Registered : MapGet(sessions', id) = MapGet(sessions, id)]_vars

\* C2 amended: a CreateSession that returns a session registers it, without
\* participants, under the generated id and leaves every session under another
\* id as it was.  So when the generated id is not registered the number of
\* registered sessions grows by exactly one and nothing is replaced; when it is
\* registered (the code does not check) the new session replaces the one under
\* that id and the number stays the same.
C2_CreateSessionAddsOrReplaces ==
    [][(Returned' = "CreateSession" /\ ret'.res.Session /= Nil)
        => LET new == Deref(ret'.res.Session)
               stored == Deref(MapGet(sessions', new.Id))
           IN  /\ Registered' = Registered \cup {new.Id}
               /\ \A id \in Registered \ {new.Id} :
                      MapGet(sessions', id) = MapGet(sessions, id)
               /\ Session(stored) = new
               /\ MapKeys(stored.participants) = {}
               /\ new.Id \notin Registered
                      => Cardinality(Registered') = Cardinality(Registered) + 1
               /\ new.Id \in Registered
                      => Cardinality(Registered') = Cardinality(Registered)]_vars

\* a CreateSession has just returned a session under a fresh id while another
\* session, holding a participant, is registered
C2_Witness ==
    /\ Returned = "CreateSession"
    /\ ret.res.Session /= Nil
    /\ \E id \in Registered :
          /\ id /= Deref(ret.res.Session).Id
          /\ MapKeys(Deref(MapGet(sessions, id)).participants) /= {}

\* a string that is empty or holds white space only
OnlyWhiteSpace(v) == \A i \in 1..Len(v) : v[i] \in {" ", "\t", "\n", "\r", "\f"}

\* C3: a CreateSession whose name is empty or white space only returns a
\* non-empty list of validation errors and no session, and leaves the registry
\* as it was.
C3_BlankNameCreatesNothing ==
    [][(Returned' = "CreateSession" /\ OnlyWhiteSpace(ret'.call.Name))
        => /\ ret'.res.Errors /= <<>>
           /\ ret'.res.Session = Nil
           /\ ~ret'.res.panic
           /\ sessions' = sessions]_vars

\* a CreateSession with a name of white space has just returned errors, on a
\* handler that holds a session
C3_Witness ==
    /\ Returned = "CreateSession"
    /\ ret.call.Name /= <<>>
    /\ OnlyWhiteSpace(ret.call.Name)
    /\ ret.res.Errors /= <<>>
    /\ Registered /= {}

\* an id of the wrong length or with a character outside the allowed ones
Malformed(v) == Len(v) /= IdLen \/ \E i \in 1..Len(v) : v[i] \notin IdChars

\* C4: GetSession and DeleteSession of the WebRtcSessionHandler answer an id
\* of the wrong length, or with any character outside the allowed ones, with a
\* validation error, never with not-found.
C4_MalformedIdIsValidationError ==
    (/\ kind = "webrtc"
     /\ Returned \in {"GetSession", "DeleteSession"}
     /\ Malformed(ret.call.SessionId))
    => ret.res.Errors /= <<>>

\* C5: a GetSession with a well-formed id under which no session is
\* registered (never registered, or deleted) reports not-found: no session, no
\* errors, no unexpected failure.
C5_UnregisteredIdIsNotFound ==
    (/\ Returned = "GetSession"
     /\ ret.call.SessionId \in generateSessionId(kind)
     /\ ret.call.SessionId \notin Registered)
    => ret.res = NoResult

\* C6: deleting a session removes its participants with it: no operation
\* returns a participant whose session is not registered; a DeleteSession that
\* returned the session leaves its id unregistered; and, while the id of a
\* deleted session is not registered, GetParticipants of it and GetParticipant
\* of each of its former participants return the "session does not exist"
\* error.
C6_DeleteSessionCascades ==
    /\ (Returned \in {"AddParticipant", "GetParticipant", "UpdateParticipant"}
            /\ ret.res.Participant /= Nil)
        => LET p == Deref(ret.res.Participant)
           IN  /\ p.SessionId \in Registered
               /\ MapGet(SessionAt(sessions, p.SessionId).participants, p.Id) = Ptr(p)
    /\ (Returned = "GetParticipants" /\ ret.res.Participants /= Nil)
        => ret.call.SessionId \in Registered
    /\ (Returned = "DeleteSession" /\ ret.res.Session /= Nil)
        => ret.call.SessionId \notin Registered
    /\ \A d \in deleted :
          (d.Id \notin Registered /\ ret.call.SessionId = d.Id)
          => /\ Returned = "GetParticipants"
                  => ret.res = ErrorsResult(SessionDoesNotExist(d.Id))
             /\ (Returned = "GetParticipant"
                    /\ ret.call.ParticipantId \in MapKeys(d.participants))
                  => ret.res = ErrorsResult(SessionDoesNotExist(d.Id))

\* a GetParticipant of a former participant of a deleted session has just
\* returned the error
C6_Witness ==
    \E d \in deleted :
        /\ Returned = "GetParticipant"
        /\ ret.call.SessionId = d.Id
        /\ ret.call.ParticipantId \in MapKeys(d.participants)
        /\ ret.res.Errors /= <<>>

\* C7: an AddParticipant whose sessionId is not registered returns an error
\* and no participant and leaves everything as it was; with a well-formed
\* sessionId and a name that is not blank the error is "session does not
\* exist".
C7_AddParticipantNeedsSession ==
    [][(Returned' = "AddParticipant" /\ ret'.call.SessionId \notin Registered)
        => /\ ret'.res.Participant = Nil
           /\ ret'.res.Errors /= <<>>
           /\ ~ret'.res.panic
           /\ sessions' = sessions
           /\ (/\ ret'.call.SessionId \in generateSessionId(kind)
               /\ ~OnlyWhiteSpace(ret'.call.Name))
              => ret'.res.Errors = SessionDoesNotExist(ret'.call.SessionId)]_vars

\* an AddParticipant has just returned "session does not exist" on a handler
\* that holds another session
C7_Witness ==
    /\ Returned = "AddParticipant"
    /\ ret.res.Errors = SessionDoesNotExist(ret.call.SessionId)
    /\ Registered /= {}

\* the slice ps holds every participant of the session under sid in ss
\* exactly once
HoldsAll(ps, ss, sid) ==
    /\ Len(ps) = Cardinality(ParticipantIds(ss, sid))
    /\ {ps[i] : i \in 1..Len(ps)}
         = {ParticipantAt(ss, sid, pid) : pid \in ParticipantIds(ss, sid)}

\* C8 as stated: every one of the concurrent AddParticipant calls on a
\* registered session succeeds and adds one participant, so that N calls leave
\* exactly N participants with pairwise distinct ids, and GetParticipants
\* returns them all.
C8_AddParticipantAlwaysAddsOne ==
    [][/\ (Returned' = "AddParticipant" /\ ret'.call.SessionId \in Registered)
          => /\ ret'.res.Participant /= Nil
             /\ Cardinality(ParticipantIds(sessions', ret'.call.SessionId))
                  = Cardinality(ParticipantIds(sessions, ret'.call.SessionId)) + 1
       /\ (Returned' = "GetParticipants" /\ ret'.res.Participants /= Nil)
          => HoldsAll(Deref(ret'.res.Participants), sessions', ret'.call.SessionId)]_vars

\* C8 amended: every one of the concurrent AddParticipant calls on a registered
\* session succeeds and stores its participant, with the name it was given,
\* under the id it generated, leaving the other participants as they were: the
\* session holds one participant more when that id was not in the session, and
\* the same number, the earlier holder of the id replaced, when it was.
\* GetParticipants returns every participant the session holds exactly once.
C8_AddParticipantStoresUnderGeneratedId ==
    [][/\ (Returned' = "AddParticipant" /\ ret'.call.SessionId \in Registered)
          => LET sid == ret'.call.SessionId
                 old == ParticipantIds(sessions, sid)
             IN  /\ ret'.res.Participant /= Nil
                 /\ ret'.res.Errors = <<>>
                 /\ ~ret'.res.panic
                 /\ LET p == Deref(ret'.res.Participant)
                    IN  /\ p.Name = ret'.call.Name
                        /\ p.SessionId = sid
                        /\ ParticipantIds(sessions', sid) = old \cup {p.Id}
                        /\ ParticipantAt(sessions', sid, p.Id) = p
                        /\ \A q \in old \ {p.Id} :
                              ParticipantAt(sessions', sid, q) = ParticipantAt(sessions, sid, q)
                        /\ Cardinality(ParticipantIds(sessions', sid))
                             = Cardinality(old) + (IF p.Id \in old THEN 0 ELSE 1)
       /\ (Returned' = "GetParticipants" /\ ret'.res.Participants /= Nil)
          => HoldsAll(Deref(ret'.res.Participants), sessions', ret'.call.SessionId)]_vars

\* a GetParticipants has just returned the two participants, of distinct ids
\* and names, that two AddParticipant calls left in a session
C8_Witness ==
    /\ Returned = "GetParticipants"
    /\ ret.res.Participants /= Nil
    /\ LET ps == Deref(ret.res.Participants)
       IN  /\ Len(ps) = 2
           /\ ps[1].Id /= ps[2].Id
           /\ ps[1].Name /= ps[2].Name

\* C9: an UpdateParticipant of a registered participant with a name that is
\* not blank succeeds and changes the name of that participant only: its id,
\* sessionId and creationDateTime, every other participant and every session
\* stay as they were.
C9_UpdateParticipantChangesOnlyName ==
    [][(/\ Returned' = "UpdateParticipant"
        /\ ret'.call.SessionId \in Registered
        /\ ret'.call.ParticipantId \in ParticipantIds(sessions, ret'.call.SessionId)
        /\ ~OnlyWhiteSpace(ret'.call.Name))
        => LET sid == ret'.call.SessionId
               pid == ret'.call.ParticipantId
               new == [ParticipantAt(sessions, sid, pid) EXCEPT !.Name = ret'.call.Name]
           IN  /\ ret'.res = ParticipantResult(Ptr(new))
               /\ Registered' = Registered
               /\ \A id \in Registered :
                     /\ Session(SessionAt(sessions', id)) = Session(SessionAt(sessions, id))
                     /\ ParticipantIds(sessions', id) = ParticipantIds(sessions, id)
                     /\ \A q \in ParticipantIds(sessions, id) :
                           ParticipantAt(sessions', id, q)
                             = IF id = sid /\ q = pid THEN new
                               ELSE ParticipantAt(sessions, id, q)]_vars

\* an UpdateParticipant has just renamed a participant of a session that holds
\* another participant, of another name
C9_Witness ==
    /\ Returned = "UpdateParticipant"
    /\ ret.res.Participant /= Nil
    /\ \E q \in ParticipantIds(sessions, ret.call.SessionId) :
          /\ q /= ret.call.ParticipantId
          /\ ParticipantAt(sessions, ret.call.SessionId, q).Name /= ret.call.Name

\* C10: UpdateParticipant (with a name that is not blank), DeleteParticipant
\* and GetParticipant with a registered sessionId and a well-formed
\* participantId that the session does not hold return the quiet not-found (no
\* participant, no errors, no failure), which is not the "session does not
\* exist" error, and leave the registry as it was.
C10_MissingParticipantIsQuietNotFound ==
    [][(/\ Returned' \in {"UpdateParticipant", "DeleteParticipant", "GetParticipant"}
        /\ ret'.call.SessionId \in Registered
        /\ ret'.call.ParticipantId \in generateParticipantId(kind)
        /\ ret'.call.ParticipantId \notin ParticipantIds(sessions, ret'.call.SessionId)
        /\ Returned' = "UpdateParticipant" => ~OnlyWhiteSpace(ret'.call.Name))
        => /\ ret'.res = NoResult
           /\ sessions' = sessions]_vars

\* a DeleteParticipant of a well-formed id has just returned not-found from a
\* session that holds another participant
C10_Witness ==
    /\ Returned = "DeleteParticipant"
    /\ ret.res = NoResult
    /\ ret.call.SessionId \in Registered
    /\ ret.call.ParticipantId \in generateParticipantId(kind)
    /\ ParticipantIds(sessions, ret.call.SessionId) /= {}

\* the status the server answered the request with whose call returned in the
\* last step
Status == WriteHeader(ret.call, ret.res)

\* C11: in the end-to-end scenario the create-session request is answered 201
\* with a session, the add-participant request 201 with a participant of that
\* session, the update request 200 with the participant under its new name,
\* the delete-session request 200, and the following GetParticipant of the
\* same ids with the "session does not exist" error.
C11_EndToEndScenario ==
    /\ ret.call.serial = 1
        => /\ Status = StatusCreated
           /\ ret.res.Session /= Nil
           /\ Deref(ret.res.Session).Name = ret.call.Name
    /\ ret.call.serial = 2
        => /\ Status = StatusCreated
           /\ ret.res.Participant /= Nil
           /\ Deref(ret.res.Participant).Name = ret.call.Name
           /\ Deref(ret.res.Participant).SessionId = ret.call.SessionId
    /\ ret.call.serial = 3
        => /\ Status = StatusOK
           /\ ret.res.Participant /= Nil
           /\ Deref(ret.res.Participant).Name = ret.call.Name
           /\ Deref(ret.res.Participant).Id = ret.call.ParticipantId
    /\ ret.call.serial = 4
        => /\ Status = StatusOK
           /\ ret.res.Session /= Nil
           /\ Deref(ret.res.Session).Id = ret.call.SessionId
    /\ ret.call.serial = 5
        => /\ ret.res.Errors = SessionDoesNotExist(ret.call.SessionId)
           /\ ret.res.Participant = Nil
    /\ (pc[1] = "idle" /\ opsStarted > 0) => ret.call.serial = opsStarted

\* the scenario has run to its end: the GetParticipant that follows the
\* deletion of the session has returned the error
C11_Witness ==
    /\ Returned = "GetParticipant"
    /\ ret.call.serial = MaxScript
    /\ ret.res.Errors = SessionDoesNotExist(ret.call.SessionId)
    /\ \E d \in deleted :
          /\ d.Id = ret.call.SessionId
          /\ ret.call.ParticipantId \in MapKeys(d.participants)

\* C12: no operation ever ends in an unexpected failure, whatever its input
\* and the state of the registry: every call returns a result record (the
\* handlers return a nil error on every path, so a failure is a run-time
\* panic).
C12_NoUnexpectedFailure == ~ret.res.panic

\* the operations that take a sessionId, a participantId, a name
SessionIdOps ==
    {"GetSession", "DeleteSession", "AddParticipant", "GetParticipant",
     "UpdateParticipant", "DeleteParticipant", "GetParticipants"}

ParticipantIdOps == {"GetParticipant", "UpdateParticipant", "DeleteParticipant"}

NameOps == {"CreateSession", "AddParticipant", "UpdateParticipant"}

\* an id that is malformed and is not one the handler generates either
InvalidId(v) == Malformed(v) /\ v \notin generateSessionId(kind)

\* the parameters of the call c that are malformed or blank
InvalidParams(c) ==
    {f \in {"SessionId", "ParticipantId", "Name"} :
        \/ f = "SessionId" /\ c.op \in SessionIdOps /\ InvalidId(c.SessionId)
        \/ f = "ParticipantId" /\ c.op \in ParticipantIdOps /\ InvalidId(c.ParticipantId)
        \/ f = "Name" /\ c.op \in NameOps /\ OnlyWhiteSpace(c.Name)}

\* the messages of errors that come from an existence lookup
LookupErrors(errors) ==
    {i \in 1..Len(errors) : errors[i].text = "session %s does not exist"}

\* C13: validation comes before any existence lookup: an operation (here of
\* the MockSessionHandler) called with a malformed or blank parameter returns
\* validation errors, not the outcome of a lookup, and no payload, and leaves
\* the registry as it was.
C13_ValidationBeforeLookup ==
    [][(kind = "mock" /\ InvalidParams(ret'.call) /= {})
        => /\ ret'.res.Errors /= <<>>
           /\ LookupErrors(ret'.res.Errors) = {}
           /\ ret'.res = ErrorsResult(ret'.res.Errors)
           /\ sessions' = sessions]_vars

\* C14: when several parameters of a call are invalid the errors list holds
\* one validation error for each of them, not only the first: AddParticipant
\* (here of the MockSessionHandler) with a malformed sessionId and a blank
\* name returns two errors, UpdateParticipant with its three parameters
\* invalid returns three.
C14_OneErrorPerInvalidParameter ==
    (/\ kind = "mock"
     /\ Returned \in {"AddParticipant", "UpdateParticipant"}
     /\ InvalidParams(ret.call) /= {})
    => Len(ret.res.Errors) = Cardinality(InvalidParams(ret.call))

\* C15 as stated: once a DeleteSession has removed the session under an id, no
\* later sequence of operations makes that id registered again.
C15_DeletedIdNeverRegistered ==
    \A d \in deleted : d.Id \notin Registered

\* C15 amended: no operation restores a deleted session or participant.  An
\* id becomes registered only by the return of a CreateSession that generated
\* it, for the new session of that call, without participants; a participant
\* id becomes registered in a session only by the return of an AddParticipant
\* on that session that generated it, for the new participant of that call.
\* So the session registered under the id of a deleted session, when the
\* generator returns that id once more (the code does not exclude it), is
\* another session and holds none of the participants deleted with the first.
C15_DeletedEntityNeverRestored ==
    [][/\ \A id \in Registered' \ Registered :
             /\ Returned' = "CreateSession"
             /\ SessionAt(sessions', id).ref = ret'.call.serial
             /\ ParticipantIds(sessions', id) = {}
       /\ \A id \in Registered' \cap Registered :
             \A pid \in ParticipantIds(sessions', id) \ ParticipantIds(sessions, id) :
                 /\ Returned' = "AddParticipant"
                 /\ ret'.call.SessionId = id
                 /\ ParticipantAt(sessions', id, pid).ref = ret'.call.serial
       /\ \A d \in deleted' :
             d.Id \in Registered' => SessionAt(sessions', d.Id).ref > d.ref]_vars

\* the id of a deleted session that held a participant is registered again,
\* for a later session
C15_Witness ==
    \E d \in deleted :
        /\ MapKeys(d.participants) /= {}
        /\ d.Id \in Registered
        /\ SessionAt(sessions, d.Id).ref > d.ref

\* C16: every step that writes the session map or a participant map, the
\* creation of the map included, is taken by the thread that holds the
\* handler's lock, and at most one thread is inside a critical section.
C16_RegistryOnlyUnderLock ==
    [][/\ sessions' /= sessions
          => \E t \in Threads : locker = t /\ pc[t] = "locked"
       /\ Cardinality({t \in Threads : pc[t] = "locked"}) <= 1]_vars

\* the operations that change the participants of a session
ParticipantWriters == {"AddParticipant", "UpdateParticipant", "DeleteParticipant"}

\* C17: a DeleteSession of S and an AddParticipant, UpdateParticipant or
\* DeleteParticipant on S that run concurrently have the outcome of one of the
\* two serial orders.  The participant operation that takes the lock after the
\* DeleteSession finds S absent, returns only "session S does not exist" and
\* changes nothing; the one that takes it before finds S registered, leaves it
\* registered and has its effect on the participants of S alone, and the
\* DeleteSession that follows removes S with all the participants it then
\* holds.  No registered session holds a participant of another session, and
\* no participant is held outside the registered sessions.
C17_DeleteSessionSerialisesWithParticipantOps ==
    [][LET c == ret'.call
           S == c.SessionId
           r == ret'.res
       IN  /\ Returned' \in ParticipantWriters
              => IF S \notin Registered
                 THEN /\ r = ErrorsResult(SessionDoesNotExist(S))
                      /\ sessions' = sessions
                 ELSE /\ r.Errors = Nil /\ ~r.panic
                      /\ Registered' = Registered
                      /\ \A id \in Registered \ {S} :
                             MapGet(sessions', id) = MapGet(sessions, id)
                      /\ Returned' = "AddParticipant" => r.Participant /= Nil
                      /\ (Returned' /= "DeleteParticipant" /\ r.Participant /= Nil)
                             => ParticipantAt(sessions', S, Deref(r.Participant).Id)
                                    = Deref(r.Participant)
                      /\ (Returned' = "DeleteParticipant" /\ r.Participant /= Nil)
                             => ParticipantIds(sessions', S)
                                    = ParticipantIds(sessions, S) \ {Deref(r.Participant).Id}
                      /\ r.Participant = Nil => sessions' = sessions
           /\ (Returned' = "DeleteSession" /\ S \in Registered)
              => /\ Registered' = Registered \ {S}
                 /\ SessionAt(sessions, S) \in deleted'
                 /\ r = SessionResult(Ptr(Session(SessionAt(sessions, S))))
           /\ \A id \in Registered' : \A pid \in ParticipantIds(sessions', id) :
                 ParticipantAt(sessions', id, pid).SessionId = id]_vars

\* an UpdateParticipant on a session that a DeleteSession removed together
\* with the participant the update names has just returned "session does not
\* exist", the id not being registered
C17_Witness ==
    /\ Returned = "UpdateParticipant"
    /\ ret.res = ErrorsResult(SessionDoesNotExist(ret.call.SessionId))
    /\ ret.call.SessionId \notin Registered
    /\ \E d \in deleted :
          /\ d.Id = ret.call.SessionId
          /\ ret.call.ParticipantId \in MapKeys(d.participants)

\* the participant records the result r points to
PointedTo(r) ==
    (IF r.Participant = Nil THEN {} ELSE {Deref(r.Participant).ref})
      \cup (IF r.Participants = Nil THEN {}
            ELSE {Deref(r.Participants)[i].ref : i \in 1..Len(Deref(r.Participants))})

\* C18: every read of a participant's name is serialized with the write of
\* UpdateParticipant, the reads of the transport that encodes a result after
\* the operation returned included: no request handler is encoding a result
\* that points to a participant record while an UpdateParticipant of another
\* request is in its critical section on that record, and the body a request
\* handler writes holds the participants as the operation returned them.
C18_ReadsSerializedWithWrite ==
    /\ \A t \in Threads :
          (held /= NotServing /\ pc[t] = "encode")
          => \A w \in Writing(t) : w.ref \notin PointedTo(held[t].result)
    /\ response.status \notin {StatusNotFound, NoResponse}
          => response.body = response.returned

\* C19: the status the transport answers with, for every operation that
\* returned a result (the malformed session id that isId accepts apart): 404 whenever the session or the participant the request
\* refers to was not found (the "session does not exist" error or a nil
\* entity), else 400 on validation errors, else 201 for a creation and 200 for
\* a found, updated or deleted entity.
C19_StatusOfEveryOutcome ==
    (/\ Returned /= "none" /\ ~ret.res.panic
     /\ ret.call.SessionId /= MixedId)
    => Status =
         IF \/ LookupErrors(ret.res.Errors) /= {}
            \/ /\ ret.res.Errors = Nil
               /\ \/ Returned \in {"GetSession", "DeleteSession"} /\ ret.res.Session = Nil
                  \/ /\ Returned \in {"GetParticipant", "UpdateParticipant", "DeleteParticipant"}
                     /\ ret.res.Participant = Nil
         THEN StatusNotFound
         ELSE IF ret.res.Errors /= Nil THEN StatusBadRequest
         ELSE IF Returned \in {"CreateSession", "AddParticipant"} THEN StatusCreated
         ELSE StatusOK

\* the operations on the participants of a session that is there already
ParticipantLookups ==
    {"GetParticipant", "UpdateParticipant", "DeleteParticipant", "GetParticipants"}

\* C20: a GetParticipant, UpdateParticipant, DeleteParticipant or
\* GetParticipants whose sessionId is not registered returns errors, no
\* participant and no participants, and leaves the registry as it was; with
\* parameters that are all valid the errors are "session <id> does not exist"
\* alone (with an invalid one the validation errors can come instead).
C20_ParticipantLookupNeedsSession ==
    [][(Returned' \in ParticipantLookups /\ ret'.call.SessionId \notin Registered)
        => /\ ret'.res.Participant = Nil
           /\ ret'.res.Participants = Nil
           /\ ret'.res.Errors /= <<>>
           /\ ~ret'.res.panic
           /\ sessions' = sessions
           /\ LookupErrors(ret'.res.Errors) /= {} \/ InvalidParams(ret'.call) /= {}
           /\ InvalidParams(ret'.call) = {}
              => ret'.res.Errors = SessionDoesNotExist(ret'.call.SessionId)]_vars

\* a GetParticipants of a well-formed id that is not registered has just
\* returned "session does not exist" on a handler that holds a session with a
\* participant
C20_Witness ==
    /\ Returned = "GetParticipants"
    /\ ret.call.SessionId \in generateSessionId(kind) \ Registered
    /\ ret.res.Errors = SessionDoesNotExist(ret.call.SessionId)
    /\ \E id \in Registered : ParticipantIds(sessions, id) /= {}

\* C21: a GetParticipants on a registered session returns, without errors,
\* exactly the participants the session holds when the operation runs: each of
\* them once, as registered, and nothing else (none of another session, none
\* deleted before); it changes nothing.
C21_GetParticipantsReturnsExactlyTheSession ==
    [][(Returned' = "GetParticipants" /\ ret'.call.SessionId \in Registered)
        => /\ ret'.res.Errors = Nil
           /\ ~ret'.res.panic
           /\ ret'.res.Participants /= Nil
           /\ HoldsAll(Deref(ret'.res.Participants), sessions, ret'.call.SessionId)
           /\ \A i \in 1..Len(Deref(ret'.res.Participants)) :
                 Deref(ret'.res.Participants)[i].SessionId = ret'.call.SessionId
           /\ sessions' = sessions]_vars

\* a GetParticipants has just returned the one participant of its session while
\* another session is registered
C21_Witness ==
    /\ Returned = "GetParticipants"
    /\ ret.res.Participants /= Nil
    /\ Len(Deref(ret.res.Participants)) = 1
    /\ Cardinality(Registered) = 2

\* C22: a DeleteParticipant on a registered participant returns that
\* participant, without errors, and removes it alone: the other participants
\* of the session, the session's own fields and every other session are as
\* they were.  While the participant id is then absent from the registered
\* session, a GetParticipant and a DeleteParticipant with the same ids return
\* no participant and no error and change nothing.
C22_DeleteParticipantRemovesExactlyIt ==
    [][LET S == ret'.call.SessionId
           P == ret'.call.ParticipantId
       IN  /\ (/\ Returned' = "DeleteParticipant"
               /\ S \in Registered
               /\ P \in ParticipantIds(sessions, S))
              => /\ ret'.res = ParticipantResult(Ptr(ParticipantAt(sessions, S, P)))
                 /\ Registered' = Registered
                 /\ ParticipantIds(sessions', S) = ParticipantIds(sessions, S) \ {P}
                 /\ \A pid \in ParticipantIds(sessions', S) :
                       ParticipantAt(sessions', S, pid) = ParticipantAt(sessions, S, pid)
                 /\ Session(SessionAt(sessions', S)) = Session(SessionAt(sessions, S))
                 /\ \A id \in Registered \ {S} : MapGet(sessions', id) = MapGet(sessions, id)
           /\ (/\ Returned' \in {"GetParticipant", "DeleteParticipant"}
               /\ S \in Registered
               /\ P \in generateParticipantId(kind) \ ParticipantIds(sessions, S))
              => /\ ret'.res.Participant = Nil
                 /\ ret'.res.Errors = Nil
                 /\ ~ret'.res.panic
                 /\ sessions' = sessions]_vars

\* a DeleteParticipant has just returned the participant it removed from a
\* session that still holds another one
C22_Witness ==
    /\ Returned = "DeleteParticipant"
    /\ ret.res.Participant /= Nil
    /\ ret.call.SessionId \in Registered
    /\ ret.call.ParticipantId \notin ParticipantIds(sessions, ret.call.SessionId)
    /\ ParticipantIds(sessions, ret.call.SessionId) /= {}

\* C23 as stated: the id of the participant a successful AddParticipant adds
\* differs from the id of every participant the session holds, and every
\* participant the session held stays registered with the fields it had.
C23_AddParticipantIdIsFresh ==
    [][(Returned' = "AddParticipant" /\ ret'.res.Participant /= Nil)
        => LET sid == ret'.call.SessionId
               old == ParticipantIds(sessions, sid)
           IN  /\ Deref(ret'.res.Participant).Id \notin old
               /\ \A q \in old :
                     /\ q \in ParticipantIds(sessions', sid)
                     /\ ParticipantAt(sessions', sid, q) = ParticipantAt(sessions, sid, q)]_vars

\* C23 amended: a successful AddParticipant registers the new participant of
\* the call under the id it generated and touches nothing else: the fields of
\* the session, every participant of the session under another id and every
\* other session are as they were.  When no participant of the session had the
\* generated id the session holds exactly one participant more; when one had
\* (the code does not compare the id with those in use) the new participant
\* takes its place and the session holds as many as before.
C23_AddParticipantAddsOrReplacesOne ==
    [][(Returned' = "AddParticipant" /\ ret'.res.Participant /= Nil)
        => LET sid == ret'.call.SessionId
               old == ParticipantIds(sessions, sid)
               p == Deref(ret'.res.Participant)
           IN  /\ sid \in Registered /\ Registered' = Registered
               /\ p.ref = ret'.call.serial
               /\ ParticipantAt(sessions', sid, p.Id) = p
               /\ ParticipantIds(sessions', sid) \ {p.Id} = old \ {p.Id}
               /\ \A q \in old \ {p.Id} :
                     ParticipantAt(sessions', sid, q) = ParticipantAt(sessions, sid, q)
               /\ Session(SessionAt(sessions', sid)) = Session(SessionAt(sessions, sid))
               /\ \A id \in Registered \ {sid} : MapGet(sessions', id) = MapGet(sessions, id)
               /\ p.Id \notin old
                     => Cardinality(ParticipantIds(sessions', sid)) = Cardinality(old) + 1
               /\ p.Id \in old
                     => /\ ParticipantIds(sessions', sid) = old
                        /\ ParticipantAt(sessions, sid, p.Id).ref < p.ref]_vars

\* an AddParticipant has just returned the second participant of its session
\* while another session is registered
C23_Witness ==
    /\ Returned = "AddParticipant"
    /\ ret.res.Participant /= Nil
    /\ Cardinality(ParticipantIds(sessions, ret.call.SessionId)) = 2
    /\ Cardinality(Registered) = 2

\* the result r holds a session, a participant or a participants slice
HasPayload(r) == r.Session /= Nil \/ r.Participant /= Nil \/ r.Participants /= Nil

\* C24 as stated: every result an operation returns (the malformed session
\* id that isId accepts apart) holds either a payload or a non-empty errors
\* list, and never both.
C24_PayloadOrErrors ==
    (Returned /= "none" /\ ~ret.res.panic /\ ret.call.SessionId /= MixedId)
    => (HasPayload(ret.res) <=> ret.res.Errors = Nil)

\* C24 amended: no result holds both a payload and errors; the results of
\* CreateSession, AddParticipant and GetParticipants hold one of the two; the
\* result of an operation that looks one entity up holds neither when the
\* entity was not found (a missing session for GetSession and DeleteSession, a
\* missing participant of a registered session for the participant operations).
C24_NeverPayloadAndErrors ==
    [][(Returned' /= "none" /\ ~ret'.res.panic)
        => /\ ~(HasPayload(ret'.res) /\ ret'.res.Errors /= Nil)
           /\ (~HasPayload(ret'.res) /\ ret'.res.Errors = Nil)
              => \/ /\ Returned' \in {"GetSession", "DeleteSession"}
                    /\ ret'.call.SessionId \notin Registered
                 \/ /\ Returned' \in {"GetParticipant", "UpdateParticipant", "DeleteParticipant"}
                    /\ ret'.call.SessionId \in Registered
                    /\ ret'.call.ParticipantId
                          \notin ParticipantIds(sessions, ret'.call.SessionId)]_vars

\* an UpdateParticipant of a participant id that its registered session does
\* not hold has just returned neither a participant nor errors
C24_Witness ==
    /\ Returned = "UpdateParticipant"
    /\ ret.call.SessionId \in Registered
    /\ ~HasPayload(ret.res)
    /\ ret.res.Errors = Nil
    /\ ~ret.res.panic

\* the errors among errors that report a blank field
BlankErrors(errors) ==
    {i \in 1..Len(errors) : errors[i].text = "%s must not be blank"}

\* C25: an AddParticipant or UpdateParticipant whose name is empty or white
\* space only returns validation errors and no participant and leaves the
\* registry as it was, so nothing is created and the participant keeps its
\* name.  The error for the blank name is among them, unless the mock's
\* AddParticipant returned the error of a sessionId that is no UUID, which it
\* checks first (C14).
C25_BlankNameChangesNoParticipant ==
    [][(/\ Returned' \in {"AddParticipant", "UpdateParticipant"}
        /\ OnlyWhiteSpace(ret'.call.Name))
        => /\ ret'.res.Errors /= <<>>
           /\ LookupErrors(ret'.res.Errors) = {}
           /\ ret'.res.Participant = Nil
           /\ ~ret'.res.panic
           /\ sessions' = sessions
           /\ \/ BlankErrors(ret'.res.Errors) /= {}
              \/ /\ kind = "mock"
                 /\ Returned' = "AddParticipant"
                 /\ checkSessionId(ret'.call.SessionId) /= Nil]_vars

\* an UpdateParticipant with a name of white space, on a registered
\* participant, has just returned errors
C25_Witness ==
    /\ Returned = "UpdateParticipant"
    /\ ret.call.Name = <<" ", "\t">>
    /\ ret.res.Errors /= <<>>
    /\ ret.call.SessionId \in Registered
    /\ ret.call.ParticipantId \in ParticipantIds(sessions, ret.call.SessionId)
    /\ ParticipantAt(sessions, ret.call.SessionId, ret.call.ParticipantId).Name = <<"a">>

C27_RegisteredIdKeepsItsSession ==
    [][\A id \in Registered \cap Registered' :
          Session(SessionAt(sessions', id)) = Session(SessionAt(sessions, id))]_vars

\* C27 amended: no operation writes to a session.  The session registered
\* under an id has the fields a CreateSession returned, and they change only
\* when a later CreateSession generates the same id (the code does not compare
\* it with the ids in use): the session then registered is the new session of
\* that call, not the earlier one with other fields.
C27_SessionNeverMutated ==
    [][/\ \A id \in Registered' :
             /\ SessionAt(sessions', id).Id = id
             /\ Session(SessionAt(sessions', id)) \in created'
       /\ \A id \in Registered \cap Registered' :
             \/ Session(SessionAt(sessions', id)) = Session(SessionAt(sessions, id))
             \/ /\ Returned' = "CreateSession"
                /\ ret'.res.Session = Ptr(Session(SessionAt(sessions', id)))
                /\ SessionAt(sessions', id).ref = ret'.call.serial
                /\ SessionAt(sessions, id).ref < ret'.call.serial]_vars

\* an UpdateParticipant has just changed the name of a participant of a
\* session that has the fields its CreateSession returned and another name
C27_Witness ==
    /\ Returned = "UpdateParticipant"
    /\ ret.res.Participant /= Nil
    /\ Session(SessionAt(sessions, ret.call.SessionId)) \in created
    /\ SessionAt(sessions, ret.call.SessionId).Name /= ret.call.Name
    /\ ParticipantAt(sessions, ret.call.SessionId, ret.call.ParticipantId).Name = ret.call.Name

\* the name of the participant pid of the session sid changes in this step
NameChanges(sid, pid) ==
    ParticipantAt(sessions', sid, pid).Name /= ParticipantAt(sessions, sid, pid).Name

\* what the operations that read or write a name do with it: an
\* UpdateParticipant that returns the participant has stored the given name;
\* a GetParticipant and a GetParticipants return the participants as the
\* session holds them
NamesReadAsWritten ==
    LET S == ret'.call.SessionId
        P == ret'.call.ParticipantId
    IN  /\ (Returned' = "UpdateParticipant" /\ ret'.res.Participant /= Nil)
           => /\ Deref(ret'.res.Participant).Name = ret'.call.Name
              /\ ParticipantAt(sessions', S, P) = Deref(ret'.res.Participant)
        /\ (Returned' = "GetParticipant" /\ ret'.res.Participant /= Nil)
           => /\ ret'.res.Participant = Ptr(ParticipantAt(sessions, S, P))
              /\ sessions' = sessions
        /\ (Returned' = "GetParticipants" /\ ret'.res.Participants /= Nil)
           => /\ HoldsAll(Deref(ret'.res.Participants), sessions, S)
              /\ sessions' = sessions

C29_DeleteSessionRemovesExactlyIt ==
    [][(Returned' = "DeleteSession" /\ ret'.call.SessionId \in generateSessionId(kind))
        => LET S == ret'.call.SessionId
           IN  IF S \in Registered
               THEN /\ ret'.res = SessionResult(Ptr(Session(SessionAt(sessions, S))))
                    /\ Registered' = Registered \ {S}
                    /\ \A id \in Registered \ {S} :
                          MapGet(sessions', id) = MapGet(sessions, id)
               ELSE /\ ret'.res = NoResult
                    /\ sessions' = sessions]_vars

\* C30: a successful AddParticipant returns a participant with the name it
\* was given and the id of the session it was called on, and registers it in
\* that session as returned; a GetParticipant with the ids of a registered
\* participant, so with the returned ids from then on, returns it with the
\* fields the registry holds, without errors.
C30_AddedParticipantIsRetrievable ==
    [][LET S == ret'.call.SessionId
           r == ret'.res
       IN  /\ (Returned' = "AddParticipant" /\ r.Participant /= Nil)
              => LET p == Deref(r.Participant)
                 IN  /\ r = ParticipantResult(Ptr(p))
                     /\ p.Name = ret'.call.Name
                     /\ p.SessionId = S
                     /\ p.Id \in generateParticipantId(kind)
                     /\ S \in Registered'
                     /\ p.Id \in ParticipantIds(sessions', S)
                     /\ ParticipantAt(sessions', S, p.Id) = p
           /\ (/\ Returned' = "GetParticipant"
               /\ S \in Registered
               /\ ret'.call.ParticipantId \in ParticipantIds(sessions, S))
              => r = ParticipantResult(Ptr(ParticipantAt(sessions, S, ret'.call.ParticipantId)))]_vars

\* a GetParticipant has just returned the participant that the call before it
\* added, with the session id it was called with
C30_Witness ==
    /\ Returned = "GetParticipant"
    /\ ret.res.Participant /= Nil
    /\ Deref(ret.res.Participant).ref = ret.call.serial - 1
    /\ Deref(ret.res.Participant).SessionId = ret.call.SessionId

\* the messages of errors that reject an identifier as malformed
IdErrors(errors) ==
    {i \in 1..Len(errors) : errors[i].text \in {"%s must be a valid id", "invalid UUID %s"}}

\* C31: every identifier a handler generates passes that handler's identifier
\* validation.  The generators' outputs pass isId / checkSessionId; and no
\* operation called with the id of a registered session (an id CreateSession
\* returned), or with that and the id of a participant of the session (an id
\* AddParticipant returned), returns an error that rejects an id as malformed,
\* so the entity is reached.
C31_GeneratedIdsPassValidation ==
    /\ [](/\ \A c \in Digits \cup LowerHex :
                /\ isId(IdField, HexId(c)) = Nil
                /\ checkSessionId(UuidId(c)) = Nil
          /\ \A id \in generateSessionId("webrtc") \cup generateParticipantId("webrtc") :
                isId(IdField, id) = Nil
          /\ \A id \in generateSessionId("mock") \cup generateParticipantId("mock") :
                checkSessionId(id) = Nil)
    /\ [][/\ (ret'.call.op \in {"GetSession", "DeleteSession", "AddParticipant",
                                "GetParticipants"}
              /\ ret'.call.SessionId \in Registered)
             => IdErrors(ret'.res.Errors) = {}
          /\ (/\ ret'.call.op \in ParticipantIdOps
              /\ ret'.call.SessionId \in Registered
              /\ ret'.call.ParticipantId \in ParticipantIds(sessions, ret'.call.SessionId))
             => /\ IdErrors(ret'.res.Errors) = {}
                /\ (ret'.call.op \in NameOps => ~OnlyWhiteSpace(ret'.call.Name))
                   => ret'.res.Participant /= Nil]_vars

\* an UpdateParticipant of the WebRtcSessionHandler, which validates both ids,
\* has just returned the participant it was called for
C31_Witness ==
    /\ kind = "webrtc"
    /\ Returned = "UpdateParticipant"
    /\ ret.res.Participant /= Nil
    /\ Deref(ret.res.Participant).Id = ret.call.ParticipantId
    /\ ret.call.SessionId \in Registered

\* the shape of a result: entity present or absent, errors present or absent,
\* unexpected failure or not
Shape(r) == [entity |-> HasPayload(r), errors |-> r.Errors /= <<>>, failure |-> r.panic]

\* the sessions and participants a registry holds, the ids being told by the
\* draw of the generator
Outline(ss) ==
    {[Id |-> ToKind("webrtc", sid),
      Name |-> SessionAt(ss, sid).Name,
      participants |->
          {[Id |-> ToKind("webrtc", pid),
            Name |-> ParticipantAt(ss, sid, pid).Name,
            SessionId |-> ToKind("webrtc", ParticipantAt(ss, sid, pid).SessionId)] :
                pid \in ParticipantIds(ss, sid)}] :
        sid \in MapKeys(ss)}

\* both handlers have returned from the same call
BothReturned == twin /= NotTwinned /\ opsStarted % 2 = 0 /\ Returned /= "none"

\* C32: the two implementations are observationally equivalent: called with
\* the same sequence of operations and inputs, their generators at the same
\* draws, the MockSessionHandler and the WebRtcSessionHandler return results
\* of the same shape at every step and hold the same sessions and participants
\* afterwards.
C32_HandlersObservationallyEquivalent ==
    BothReturned
    => /\ Shape(ret.res) = Shape(twin.res)
       /\ Outline(sessions) = Outline(twin.sessions)


\* the participant records the registry ss holds, each with the session and
\* the key it is stored under
Stored(ss) ==
    UNION {{[session |-> sid, key |-> pid, participant |-> ParticipantAt(ss, sid, pid)] :
                pid \in ParticipantIds(ss, sid)} :
           sid \in MapKeys(ss)}

\* C33: in every reachable state every participant stored in the participant
\* map of a session is stored under its own id and has the sessionId of that
\* session (which is registered under its own id); and no operation changes
\* the sessionId of a participant record or moves the record to another
\* session or another key.
C33_ParticipantsBelongToTheirSession ==
    /\ [](/\ \A sid \in Registered : SessionAt(sessions, sid).Id = sid
          /\ \A e \in Stored(sessions) :
                /\ e.participant.Id = e.key
                /\ e.participant.SessionId = e.session)
    /\ [][\A e \in Stored(sessions), f \in Stored(sessions') :
            e.participant.ref = f.participant.ref
            => /\ f.session = e.session
               /\ f.key = e.key
               /\ f.participant.Id = e.participant.Id
               /\ f.participant.SessionId = e.participant.SessionId]_vars

\* an AddParticipant has just returned, and two sessions now hold a
\* participant each under the same participant id
C33_Witness ==
    /\ Returned = "AddParticipant"
    /\ ret.res.Participant /= Nil
    /\ \E e, f \in Stored(sessions) :
          /\ e.session /= f.session
          /\ e.key = f.key
          /\ f.participant = Deref(ret.res.Participant)

\* the requests whose method the spec lists for their path
Supported ==
    \/ request.path = "/sessions" /\ request.method \in {"PUT", "POST"}
    \/ request.path = "/sessions/{sessionId}" /\ request.method \in {"GET", "DELETE"}
    \/ /\ request.path = "/sessions/{sessionId}/participants"
       /\ request.method \in {"GET", "PUT", "POST"}
    \/ /\ request.path = "/sessions/{sessionId}/participants/{participantId}"
       /\ request.method \in {"GET", "PUT", "POST", "DELETE"}

\* the server lets the pending request be without a call of the SessionHandler
\* and answers it with status
AnsweredWithoutCall(status) ==
    /\ response'.status = status
    /\ response'.call = NoCall
    /\ ret' = NoRet
    /\ UNCHANGED <<sessions, call, pc, locker, held>>

\* C34: a request whose method is not supported on its path is answered with
\* 501 and no registry operation is invoked: the registry is as it was.
C34_UnsupportedMethodIsNotImplemented ==
    [][(Pending /\ ~Supported) => AnsweredWithoutCall(StatusNotImplemented)]_vars

\* a DELETE on the participants of a registered session has just been
\* answered with 501
C34_Witness ==
    /\ response.status = StatusNotImplemented
    /\ request.method = "DELETE"
    /\ request.path = "/sessions/{sessionId}/participants"
    /\ request.sessionId \in Registered

\* C35: when the body of a create-session, add-participant or
\* update-participant request cannot be decoded (no body, a text cut short, a
\* number for the name) the transport answers 400 without invoking any registry
\* operation: no session or participant is created or changed.
C35_UndecodableBodyIsBadRequest ==
    [][(/\ Pending
        /\ request.method \in {"PUT", "POST"}
        /\ request.path /= "/sessions/{sessionId}"
        /\ request.body \in {NoBody, NumberNameBody, CutShortBody})
        => AnsweredWithoutCall(StatusBadRequest)]_vars

\* an update-participant request for a registered participant whose body is
\* cut short has just been answered with 400
C35_Witness ==
    /\ response.status = StatusBadRequest
    /\ response.call = NoCall
    /\ request.method = "PUT"
    /\ request.body = CutShortBody
    /\ request.sessionId \in Registered
    /\ request.participantId \in ParticipantIds(sessions, request.sessionId)

\* C36: GetParticipants on a registered session that has no participants
\* (none was added, or all were deleted) returns an empty collection and no
\* errors, and the transport answers 200.
C36_NoParticipantsIsAnEmptyCollection ==
    [][(/\ ret'.call.op = "GetParticipants"
        /\ ret'.call.SessionId \in Registered
        /\ ParticipantIds(sessions, ret'.call.SessionId) = {})
        => /\ ret'.res = ParticipantsResult(Ptr(<<>>))
           /\ WriteHeader(ret'.call, ret'.res) = StatusOK
           /\ sessions' = sessions]_vars

\* a GetParticipants has just returned the empty collection for a session of
\* the MockSessionHandler whose participants map was made by an AddParticipant
\* and is empty again
C36_Witness ==
    /\ kind = "mock"
    /\ Returned = "GetParticipants"
    /\ ret.res = ParticipantsResult(Ptr(<<>>))
    /\ Status = StatusOK
    /\ ret.call.SessionId \in Registered
    /\ SessionAt(sessions, ret.call.SessionId).participants = MakeMap

\* the operations that only read
ReadOnlyOps == {"GetSession", "GetParticipant", "GetParticipants"}

\* C37: GetSession, GetParticipant and GetParticipants never change the
\* registry: no step of such a call, from its start to its return and with any
\* input, changes the set of registered sessions, a session's fields, a
\* participant set or a participant's fields.
C37_ReadOnlyOperationsChangeNothing ==
    [][(\/ ret'.call.op \in ReadOnlyOps
        \/ \E t \in Threads : call[t].op \in ReadOnlyOps \/ call'[t].op \in ReadOnlyOps)
        => sessions' = sessions]_vars

\* a GetParticipant has just returned a participant of a session that holds
\* two, as the registry holds it
C37_Witness ==
    /\ Returned = "GetParticipant"
    /\ ret.res.Participant /= Nil
    /\ ret.call.SessionId \in Registered
    /\ Cardinality(ParticipantIds(sessions, ret.call.SessionId)) = 2
    /\ ret.call.ParticipantId \in ParticipantIds(sessions, ret.call.SessionId)
    /\ ParticipantAt(sessions, ret.call.SessionId, ret.call.ParticipantId)
         = Deref(ret.res.Participant)

\* C38: participants of different sessions are independent: an AddParticipant,
\* UpdateParticipant or DeleteParticipant on a session leaves every other
\* registered session, its participant set and the fields of its participants,
\* as they were, also when one of them has the same participant id.
C38_OtherSessionsKeepTheirParticipants ==
    [][ret'.call.op \in {"AddParticipant", "UpdateParticipant", "DeleteParticipant"}
        => \A sid \in Registered \ {ret'.call.SessionId} :
              /\ sid \in MapKeys(sessions')
              /\ SessionAt(sessions', sid) = SessionAt(sessions, sid)]_vars

\* an UpdateParticipant or a DeleteParticipant has just returned its
\* participant, and another session holds a participant of the same id (and,
\* next to an update, of another name)
C38_Witness ==
    /\ Returned \in {"UpdateParticipant", "DeleteParticipant"}
    /\ ret.res.Participant /= Nil
    /\ \E sid \in Registered \ {ret.call.SessionId} :
          /\ ret.call.ParticipantId \in ParticipantIds(sessions, sid)
          /\ Returned = "UpdateParticipant"
                => ParticipantAt(sessions, sid, ret.call.ParticipantId).Name /= ret.call.Name

====
